---- MODULE Spec2Model ----
(***************************************************************************)
(* Model of the paginated document composition engine                      *)
(* (src/src/services/pdf_generator.py, class PDFGenerator).                *)
(*                                                                         *)
(* Lengths are in hundredths of a point (1 inch = 7200).  A canvas is the  *)
(* sequence of pages already closed by showPage plus the page being drawn; *)
(* a page is the sequence of drawing operations issued on it.              *)
(***************************************************************************)
EXTENDS Integers, Sequences, FiniteSets, TLC

(***************************************************************************)
(* Page geometry (PDFGenerator.__init__)                                   *)
(***************************************************************************)
\* h hundredths of an inch (reportlab.lib.units.inch = 72 points)
Hin(h) == h * 72

page_height == 61200
page_width == 79200
top_margin == 8504
left_margin == 7087
right_margin == 7087
bottom_margin == 8504

Max(a, b) == IF a >= b THEN a ELSE b
Min(a, b) == IF a <= b THEN a ELSE b

(***************************************************************************)
(* Bounds of the checked inputs                                            *)
(***************************************************************************)
\* length of the long attachment list (overflows one cover page)
LongList == 16
\* length of the very long attachment list (overflows two cover pages)
VeryLongList == 30
\* number of evaluated rows of the long results table
ManyRows == 10

(***************************************************************************)
(* The canvas (reportlab.pdfgen.canvas.Canvas as used by the generator)    *)
(***************************************************************************)
\* text is what PyPDF2's extract_text returns for the page (character codes,
\* <<-1>>: the call raises); contents is the page's content stream (bytes,
\* <<-1>>: no content stream, <<-2>>: reading it raises); path, idx and sect identify a page copied from
\* an attachment (NoPath: a page drawn by the generator); low is the lowest
\* y a block drawn on the page reaches down to (page_height: no block)
NoPath == <<"", 0>>

EmptyPage ==
    [sec |-> "", ops |-> <<>>, footers |-> <<>>, listed |-> <<>>, low |-> page_height,
     text |-> <<>>, contents |-> <<-1>>, path |-> NoPath, idx |-> 0, sect |-> 0]

NewCanvas == [closed |-> <<>>, cur |-> EmptyPage]

\* any drawing call: drawString, drawCentredString, rect, line, drawImage
Draw(c, op) ==
    [c EXCEPT !.cur.ops = Append(@, op), !.cur.text = <<65>>, !.cur.contents = <<113>>]

\* a block (table row, paragraph, bullet item, team member, protocol step)
\* drawn from y downwards over the height the renderer computed for it
Block(c, y, h) ==
    [Draw(c, "item") EXCEPT !.cur.low = Min(@, y - h)]

\* the first title drawn on a page names the section the page belongs to
Title(c, s) ==
    [Draw(c, "title") EXCEPT !.cur.sec = IF @ = "" THEN s ELSE @]

\* Canvas.showPage: closes the current page, whatever it holds
ShowPage(c) == [closed |-> Append(c.closed, c.cur), cur |-> EmptyPage]

\* Canvas.save: closes the current page only when something was drawn on it
SaveCanvas(c) == IF c.cur.ops # <<>> THEN Append(c.closed, c.cur) ELSE c.closed

\* the physical pages of a canvas, the open one included
BasePagesOf(c) == c.closed \o <<c.cur>>

\* number of physical pages the canvas holds, the open one included
PhysicalPages(c) == Len(c.closed) + 1

(***************************************************************************)
(* Drawing primitives shared by the section renderers                      *)
(***************************************************************************)
\* _draw_footer: one footer draw carrying the page number it prints
DrawFooter(c, page_number) ==
    [Draw(c, "footer") EXCEPT !.cur.footers = Append(@, page_number)]

\* _add_watermark_logo: wm is "none" (no logo given), "ok" (drawn) or
\* "fail" (the routine's own except swallowed an error: nothing drawn)
AddWatermarkLogo(c, wm) == IF wm = "ok" THEN Draw(c, "wm") ELSE c

\* _draw_header_branding draws the institutional header and returns y
HeaderBrandingY == page_height - top_margin - Hin(35) - Hin(25) - Hin(25)

DrawHeaderBranding(c) == Draw(c, "hdr")

\* _prepare_text_section_header: showPage, watermark, header, title, rule
TextSectionY == HeaderBrandingY - Hin(35) - Hin(18) - Hin(35)

PrepareTextSectionHeader(c, sec, wm) ==
    Title(DrawHeaderBranding(AddWatermarkLogo(ShowPage(c), wm)), sec)

(***************************************************************************)
(* The page cursor a renderer carries through its loop: the canvas, the    *)
(* vertical position y and the page counter                                *)
(***************************************************************************)
Cursor(c, y, ret) == [c |-> c, y |-> y, ret |-> ret]

\* the variant that leaves the page without drawing its footer
BreakPageNoFooter(st, wm) ==
    DrawHeaderBranding(AddWatermarkLogo(ShowPage(st.c), wm))

\* the page-break primitive: footer on the page being left, new page,
\* watermark, institutional header
BreakPage(st, wm) ==
    DrawHeaderBranding(AddWatermarkLogo(ShowPage(DrawFooter(st.c, st.ret)), wm))

(***************************************************************************)
(* Labels of results and report types.  Such a str is a sequence of        *)
(* characters; an accented vowel is written with an apostrophe after it    *)
(* ("a'") and the n with tilde as "n~".                                    *)
(***************************************************************************)
\* str.lower, character by character
LowerPairs ==
    { <<"A", "a">>, <<"B", "b">>, <<"C", "c">>, <<"D", "d">>,
      <<"E", "e">>, <<"F", "f">>, <<"G", "g">>, <<"H", "h">>,
      <<"I", "i">>, <<"J", "j">>, <<"K", "k">>, <<"L", "l">>,
      <<"M", "m">>, <<"N", "n">>, <<"O", "o">>, <<"P", "p">>,
      <<"Q", "q">>, <<"R", "r">>, <<"S", "s">>, <<"T", "t">>,
      <<"U", "u">>, <<"V", "v">>, <<"W", "w">>, <<"X", "x">>,
      <<"Y", "y">>, <<"Z", "z">>, <<"A'", "a'">>, <<"E'", "e'">>,
      <<"I'", "i'">>, <<"O'", "o'">>, <<"U'", "u'">>, <<"N~", "n~">> }

\* the replacements of _normalize_text
AccentPairs ==
    { <<"a'", "a">>, <<"e'", "e">>, <<"i'", "i">>, <<"o'", "o">>,
      <<"u'", "u">>, <<"n~", "n">> }

\* a table of replacements as a function of the characters it replaces
Replacing(pairs) ==
    [c \in {p[1] : p \in pairs} |-> (CHOOSE p \in pairs : p[1] = c)[2]]

Lower == Replacing(LowerPairs)
Unaccented == Replacing(AccentPairs)

MapChar(table, c) == IF c \in DOMAIN table THEN table[c] ELSE c

\* str.lower
StrLower(value) == [i \in 1..Len(value) |-> MapChar(Lower, value[i])]

\* _normalize_text
NormalizeText(value) ==
    IF value = <<>>
    THEN <<>>
    ELSE [i \in 1..Len(value) |-> MapChar(Unaccented, MapChar(Lower, value[i]))]

\* token in normalized
Contains(normalized, token) ==
    \E i \in 0..(Len(normalized) - Len(token)) :
        SubSeq(normalized, i + 1, i + Len(token)) = token

\* the keywords of _resolve_result_code and of the tests on the report type
Tok ==
    [normal |-> <<"n", "o", "r", "m", "a", "l">>,
       restriccionLeve |-> <<"r", "e", "s", "t", "r", "i", "c", "c", "i",
            "o", "n", " ", "l", "e", "v", "e">>,
       leve |-> <<"l", "e", "v", "e">>,
       obstruccionLeve |-> <<"o", "b", "s", "t", "r", "u", "c", "c", "i",
            "o", "n", " ", "l", "e", "v", "e">>,
       obstruccionARestriccion |-> <<"o", "b", "s", "t", "r", "u", "c",
            "c", "i", "o", "n", " ", "a", " ", "r", "e", "s", "t", "r",
            "i", "c", "c", "i", "o", "n">>,
       obstruccionARestriccionLeve |-> <<"o", "b", "s", "t", "r", "u", "c",
            "c", "i", "o", "n", " ", "a", " ", "r", "e", "s", "t", "r",
            "i", "c", "c", "i", "o", "n", " ", "l", "e", "v", "e">>,
       restriccionModerada |-> <<"r", "e", "s", "t", "r", "i", "c", "c",
            "i", "o", "n", " ", "m", "o", "d", "e", "r", "a", "d", "a">>,
       obstruccionModerada |-> <<"o", "b", "s", "t", "r", "u", "c", "c",
            "i", "o", "n", " ", "m", "o", "d", "e", "r", "a", "d", "a">>,
       restriccionGrave |-> <<"r", "e", "s", "t", "r", "i", "c", "c", "i",
            "o", "n", " ", "g", "r", "a", "v", "e">>,
       grave |-> <<"g", "r", "a", "v", "e">>,
       caida |-> <<"c", "a", "i", "d", "a">>,
       bilateral |-> <<"b", "i", "l", "a", "t", "e", "r", "a", "l">>,
       uni |-> <<"u", "n", "i">>,
       audiometr |-> <<"a", "u", "d", "i", "o", "m", "e", "t", "r">>,
       espiro |-> <<"e", "s", "p", "i", "r", "o">>,
       espirom |-> <<"e", "s", "p", "i", "r", "o", "m">>,
       audio |-> <<"a", "u", "d", "i", "o">>,
       obstrucci |-> <<"o", "b", "s", "t", "r", "u", "c", "c", "i">>,
       restricci |-> <<"r", "e", "s", "t", "r", "i", "c", "c", "i">> ]

(***************************************************************************)
(* get_content_outline (src/core/report_outline.py).  A title is written   *)
(* as a string, accents noted as in the labels.                            *)
(***************************************************************************)
\* _normalize_report_type
NormalizeReportType(report_type) ==
    IF report_type = <<>>
    THEN "espirometria"
    ELSE LET text == StrLower(report_type)
         IN IF Contains(text, Tok.audiometr) /\ Contains(text, Tok.espirom)
            THEN "combinado"
            ELSE IF Contains(text, Tok.audiometr)
                 THEN "audiometria"
                 ELSE "espirometria"

TestsLabel(normalized) ==
    IF normalized = "audiometria"
    THEN "AUDIOMETRI'AS"
    ELSE IF normalized = "combinado"
         THEN "AUDIOMETRI'AS Y ESPIROMETRI'AS"
         ELSE "ESPIROMETRI'AS"

GetContentOutline(report_type) ==
    LET tests_label == TestsLabel(NormalizeReportType(report_type))
        results_title == "CUADRO DE RESULTADOS DE LAS PRUEBAS DE " \o tests_label \o "."
        protocol_title == "PROTOCOLO DE LAS PRUEBAS DE " \o tests_label \o "."
        specific_section == tests_label \o "."
    IN << "DATOS DE LA EMPRESA.",
          results_title,
          "ESTADISTICA DE RESULTADOS.",
          "CONCLUSIO'N.",
          "RECOMENDACIO'N.",
          "EQUIPO TE'CNICO",
          "CERTIFICADOS DE CALIBRACIO'N.",
          specific_section,
          "LISTADOS DE AISTENCIA.",
          protocol_title >>

(***************************************************************************)
(* _draw_header (page 1) and _draw_table_of_contents                       *)
(***************************************************************************)
DrawHeader(c) == Title(DrawHeaderBranding(c), "cover")

TocContY == HeaderBrandingY - Hin(35) - Hin(15) - Hin(30)

\* one outline title: drawString(left_margin, y, "- " + title)
TocItem(st, title) ==
    Cursor([Draw(st.c, "item") EXCEPT !.cur.listed = Append(@, title)],
           st.y - Hin(35), st.ret)

RECURSIVE TocLoop(_, _, _, _)
TocLoop(st, outline, i, wm) ==
    IF i > Len(outline)
    THEN [c |-> DrawFooter(st.c, st.ret), ret |-> st.ret]
    ELSE IF st.y <= bottom_margin + Hin(50)
         THEN TocLoop(TocItem(Cursor(Title(BreakPage(st, wm), "toc"),
                                     TocContY, st.ret + 1),
                              outline[i]),
                      outline, i + 1, wm)
         ELSE TocLoop(TocItem(st, outline[i]), outline, i + 1, wm)

DrawTableOfContents(c, report_type, start_page, wm) ==
    TocLoop(Cursor(Title(DrawHeaderBranding(AddWatermarkLogo(ShowPage(c), wm)), "toc"),
                   TocContY, start_page),
            GetContentOutline(report_type), 1, wm)

(***************************************************************************)
(* _draw_attachment_cover_page                                             *)
(***************************************************************************)
CoverFirstY == HeaderBrandingY - Hin(35) - Hin(25) - Hin(30)
CoverContY == HeaderBrandingY - Hin(35) - Hin(30)

\* the label of one file drawn on the cover
DrawFileLabel(c, file_path) ==
    [Draw(c, "item") EXCEPT !.cur.listed = Append(@, file_path)]

CoverItem(st, file_path) ==
    Cursor(DrawFileLabel(st.c, file_path), st.y - Hin(28), st.ret)

RECURSIVE CoverLoop(_, _, _, _, _)
CoverLoop(st, sec, file_paths, i, wm) ==
    IF i > Len(file_paths)
    THEN [c |-> DrawFooter(st.c, st.ret), ret |-> st.ret]
    ELSE IF st.y <= bottom_margin + Hin(50)
         THEN CoverLoop(CoverItem(Cursor(Title(BreakPage(st, wm), sec),
                                         CoverContY, st.ret + 1),
                                  file_paths[i]),
                        sec, file_paths, i + 1, wm)
         ELSE CoverLoop(CoverItem(st, file_paths[i]), sec, file_paths, i + 1, wm)

\* variant returning page_number instead of current_page
DrawAttachmentCoverPageFirst(c, sec, file_paths, page_number, wm) ==
    [c |-> CoverLoop(Cursor(Draw(Title(DrawHeaderBranding(
                                           AddWatermarkLogo(ShowPage(c), wm)),
                                       sec), "description"),
                            CoverFirstY, page_number),
                     sec, file_paths, 1, wm).c,
     ret |-> page_number]

DrawAttachmentCoverPage(c, sec, file_paths, page_number, wm) ==
    CoverLoop(Cursor(Draw(Title(DrawHeaderBranding(AddWatermarkLogo(ShowPage(c), wm)),
                                sec), "description"),
                     CoverFirstY, page_number),
              sec, file_paths, 1, wm)

(***************************************************************************)
(* _draw_company_profile_page: rows is the sequence of row line counts,    *)
(* max(len(label_lines), len(value_lines)) of each row                     *)
(***************************************************************************)
RECURSIVE CompanyLoop(_, _, _, _)
CompanyLoop(st, rows, i, wm) ==
    IF i > Len(rows)
    THEN [c |-> DrawFooter(st.c, st.ret), ret |-> st.ret]
    ELSE LET st0 == Cursor(Draw(st.c, "item"),
                           st.y - (rows[i] * Hin(22) + Hin(15)), st.ret)
         IN IF st0.y <= bottom_margin + Hin(75)
            THEN CompanyLoop(Cursor(Title(BreakPage(st0, wm), "company"),
                                    TextSectionY, st0.ret + 1),
                             rows, i + 1, wm)
            ELSE CompanyLoop(st0, rows, i + 1, wm)

DrawCompanyProfilePage(c, rows, page_number, wm) ==
    CompanyLoop(Cursor(Title(DrawHeaderBranding(AddWatermarkLogo(ShowPage(c), wm)),
                             "company"),
                       TextSectionY, page_number),
                rows, 1, wm)

(***************************************************************************)
(* _draw_results_table_page / _prepare_results_table_page:                 *)
(* entries is the sequence of the dataset's rows, each with the number of  *)
(* wrapped lines of its tallest cell                                       *)
(***************************************************************************)
\* _estimate_results_row_height
EstimateResultsRowHeight(entry) == Max(Hin(40), entry.lines * Hin(18) + Hin(18))

ResultsTableY ==
    HeaderBrandingY - Hin(35) - Hin(25) - Hin(20) - Hin(35) - Hin(45)

PrepareResultsTablePage(c, sec, wm) ==
    Draw(Title(DrawHeaderBranding(AddWatermarkLogo(ShowPage(c), wm)), sec),
         "table_header")

\* _draw_results_table_row: the row of one entry
ResultsItem(st, entry, row_height) ==
    Cursor([Block(st.c, st.y, row_height) EXCEPT !.cur.listed = Append(@, entry.name)],
           st.y - row_height, st.ret)

\* y = -1 stands for current_y = None
RECURSIVE ResultsLoop(_, _, _, _, _)
ResultsLoop(st, sec, entries, i, wm) ==
    IF i > Len(entries)
    THEN [c |-> IF st.y # -1 THEN DrawFooter(st.c, st.ret) ELSE st.c, ret |-> st.ret]
    ELSE LET row_height == EstimateResultsRowHeight(entries[i])
         IN IF st.y = -1 \/ st.y - row_height <= bottom_margin
            THEN LET c0 == IF st.y # -1 THEN DrawFooter(st.c, st.ret) ELSE st.c
                 IN ResultsLoop(ResultsItem(Cursor(PrepareResultsTablePage(c0, sec, wm),
                                                   ResultsTableY, st.ret + 1),
                                            entries[i], row_height),
                                sec, entries, i + 1, wm)
            ELSE ResultsLoop(ResultsItem(st, entries[i], row_height),
                             sec, entries, i + 1, wm)

DrawResultsTablePage(c, sec, entries, page_number, wm) ==
    IF entries = <<>>
    THEN [c |-> c, ret |-> page_number - 1]
    ELSE ResultsLoop(Cursor(c, -1, page_number - 1), sec, entries, 1, wm)

(***************************************************************************)
(* RESULT_SCHEMES: the options of each scheme, each with its key and its   *)
(* background and foreground colours                                       *)
(***************************************************************************)
Option(key) == [key |-> key, bg |-> "bg_" \o key, fg |-> "fg_" \o key]

RESULT_SCHEMES ==
    [audiometria |-> <<Option("normal"), Option("caida_unilateral"),
                       Option("caida_bilateral")>>,
     espirometria |-> <<Option("espiro_normal"), Option("restriccion_leve"),
                        Option("obstruccion_leve"),
                        Option("obstruccion_restriccion_leve"),
                        Option("restriccion_moderada"), Option("obstruccion_moderada"),
                        Option("restriccion_grave")>>]

\* RESULT_SCHEMES.get(dataset_key, RESULT_SCHEMES["audiometria"])
SchemeOptions(dataset_key) ==
    IF dataset_key \in DOMAIN RESULT_SCHEMES
    THEN RESULT_SCHEMES[dataset_key]
    ELSE RESULT_SCHEMES.audiometria

ValidKeys(dataset_key) ==
    {SchemeOptions(dataset_key)[i].key : i \in 1..Len(SchemeOptions(dataset_key))}

(***************************************************************************)
(* _resolve_result_code.  An evaluated entry carries result_code ("" when  *)
(* absent) and the labels result_label, result and results.status (<<>>    *)
(* when absent).                                                           *)
(***************************************************************************)
Rule(key, tokens) == [key |-> key, tokens |-> tokens]

EspirometriaMapping ==
    << Rule("espiro_normal", {Tok.normal}),
       Rule("restriccion_leve", {Tok.restriccionLeve, Tok.leve}),
       Rule("obstruccion_leve", {Tok.obstruccionLeve}),
       Rule("obstruccion_restriccion_leve",
            {Tok.obstruccionARestriccion, Tok.obstruccionARestriccionLeve}),
       Rule("restriccion_moderada", {Tok.restriccionModerada}),
       Rule("obstruccion_moderada", {Tok.obstruccionModerada}),
       Rule("restriccion_grave", {Tok.restriccionGrave, Tok.grave}) >>

RECURSIVE MappingLoop(_, _, _)
MappingLoop(mapping, k, normalized) ==
    IF k > Len(mapping)
    THEN "espiro_normal"
    ELSE IF \E token \in mapping[k].tokens : Contains(normalized, token)
         THEN mapping[k].key
         ELSE MappingLoop(mapping, k + 1, normalized)

LabelSource(entry) ==
    IF entry.result_label # <<>> THEN entry.result_label
    ELSE IF entry.result # <<>> THEN entry.result
    ELSE entry.status

ResolveFromLabel(entry, dataset_key) ==
    LET normalized == NormalizeText(LabelSource(entry))
    IN IF dataset_key = "espirometria"
       THEN MappingLoop(EspirometriaMapping, 1, normalized)
       ELSE IF Contains(normalized, Tok.caida) /\ Contains(normalized, Tok.bilateral)
            THEN "caida_bilateral"
            ELSE IF Contains(normalized, Tok.caida) /\ Contains(normalized, Tok.uni)
                 THEN "caida_unilateral"
                 ELSE "normal"

\* the variant that accepts a code of any scheme
ResolveResultCodeAnyScheme(entry, dataset_key) ==
    IF entry.result_code \in ValidKeys("audiometria") \cup ValidKeys("espirometria")
    THEN entry.result_code
    ELSE ResolveFromLabel(entry, dataset_key)

\* the variant that lets the label decide whenever there is one
ResolveResultCodeLabelFirst(entry, dataset_key) ==
    IF entry.result_code \in ValidKeys(dataset_key) /\ LabelSource(entry) = <<>>
    THEN entry.result_code
    ELSE ResolveFromLabel(entry, dataset_key)

ResolveResultCode(entry, dataset_key) ==
    IF entry.result_code \in ValidKeys(dataset_key)
    THEN entry.result_code
    ELSE ResolveFromLabel(entry, dataset_key)

\* _result_style_for_entry: the colours of the style returned
ResultStyleForEntry(entry, dataset_key) ==
    LET key == ResolveResultCode(entry, dataset_key)
        palette == {SchemeOptions(dataset_key)[i] : i \in 1..Len(SchemeOptions(dataset_key))}
    IN IF \E option \in palette : option.key = key
       THEN LET option == CHOOSE option \in palette : option.key = key
            IN [background |-> option.bg, text |-> option.fg]
       ELSE [background |-> "#E0E0E0", text |-> "#1B5E20"]

\* _compute_results_stats, by the key each entry resolves to
StatsFor(entries, key_of) ==
    LET keys == ValidKeys(key_of.dataset_key)
                \cup {key_of.keys[i] : i \in 1..Len(entries)}
        count == [key \in keys |->
                     Cardinality({i \in 1..Len(entries) : key_of.keys[i] = key})]
        RECURSIVE Sum(_)
        Sum(ks) == IF ks = {} THEN 0
                   ELSE LET k == CHOOSE k \in ks : TRUE IN count[k] + Sum(ks \ {k})
    IN [key \in keys \cup {"total"} |-> IF key = "total" THEN Sum(keys) ELSE count[key]]

\* the variant that resolves every entry in the default scheme
ComputeResultsStatsDefaultKey(dataset_key, entries) ==
    StatsFor(entries,
             [dataset_key |-> dataset_key,
              keys |-> [i \in 1..Len(entries) |-> ResolveResultCode(entries[i], "audiometria")]])

ComputeResultsStats(dataset_key, entries) ==
    StatsFor(entries,
             [dataset_key |-> dataset_key,
              keys |-> [i \in 1..Len(entries) |-> ResolveResultCode(entries[i], dataset_key)]])

(***************************************************************************)
(* _draw_results_statistics_page: chart is TRUE when                       *)
(* _create_results_chart_image returned an image path                      *)
(***************************************************************************)
\* f"{value:.0f}" of (num / den) * 100: the nearest integer, the even one
\* of the two when num / den * 100 lies half way
PctFormat(num, den) ==
    LET q == (100 * num) \div den
        r == (100 * num) % den
    IN IF 2 * r < den THEN q
       ELSE IF 2 * r > den THEN q + 1
       ELSE IF q % 2 = 0 THEN q ELSE q + 1

\* pct_for(keys) as the text prints it
PctFor(stats, keys) ==
    LET RECURSIVE Sum(_)
        Sum(ks) == IF ks = {} THEN 0
                   ELSE LET k == CHOOSE k \in ks : TRUE
                        IN (IF k \in DOMAIN stats THEN stats[k] ELSE 0) + Sum(ks \ {k})
    IN PctFormat(Sum(keys), stats["total"])

\* _build_results_analysis_text: the percentages the text states, in the
\* order it states them (none: the text of the record without entries)
BuildResultsAnalysisText(dataset_key, stats) ==
    IF stats["total"] = 0
    THEN <<>>
    ELSE IF dataset_key = "espirometria"
         THEN << PctFor(stats, {"espiro_normal"}),
                 PctFor(stats, {"restriccion_leve", "obstruccion_leve",
                                "obstruccion_restriccion_leve"}),
                 PctFor(stats, {"restriccion_moderada", "obstruccion_moderada"}),
                 PctFor(stats, {"restriccion_grave"}) >>
         ELSE << PctFor(stats, {"normal"}),
                 PctFor(stats, {"caida_unilateral"}),
                 PctFor(stats, {"caida_bilateral"}) >>

\* the count table and the analysis paragraph drawn on the page
StatisticsDrawn(dataset_key, stats) ==
    [total |-> stats["total"],
     analysis |-> BuildResultsAnalysisText(dataset_key, stats)]

DrawResultsStatisticsPage(c, dataset_key, entries, page_number, wm, chart) ==
    LET stats == ComputeResultsStats(dataset_key, entries)
    IN IF stats["total"] = 0
       THEN [c |-> c, ret |-> page_number - 1]
       ELSE LET c1 == Draw(Title(DrawHeaderBranding(AddWatermarkLogo(ShowPage(c), wm)),
                                 "stats_" \o dataset_key), "item")
                c2 == IF chart THEN Draw(c1, "chart") ELSE c1
                c3 == [Draw(c2, "analysis") EXCEPT
                           !.cur.listed = <<StatisticsDrawn(dataset_key, stats)>>]
            IN [c |-> DrawFooter(c3, page_number), ret |-> page_number]

(***************************************************************************)
(* Strings.  A str is a sequence of tokens: a token is a run of whitespace *)
(* without a line break (Space), a line break (Newline), or a maximal run  *)
(* of other characters (a word, Word(s, w): its characters s and its       *)
(* stringWidth w in Helvetica 11, in hundredths of a point).  A bullet     *)
(* symbol at the start of a line is a token of its own, whether whitespace *)
(* follows it or not; two words are never adjacent.                        *)
(***************************************************************************)
Word(s, w) == [s |-> s, w |-> w]
Space == Word(" ", 306)
Newline == Word("\n", 0)
NA == Word("N/A", 1834)
IsSpace(t) == t.s \in {" ", "\n"}

\* str.strip()
RECURSIVE LStrip(_)
LStrip(s) == IF s # <<>> /\ IsSpace(Head(s)) THEN LStrip(Tail(s)) ELSE s

RECURSIVE RStrip(_)
RStrip(s) == IF s # <<>> /\ IsSpace(s[Len(s)]) THEN RStrip(SubSeq(s, 1, Len(s) - 1)) ELSE s

StrStrip(s) == RStrip(LStrip(s))

\* str.split(): the words, in order
StrSplit(s) == SelectSeq(s, LAMBDA t : ~IsSpace(t))

\* " ".join(parts), each part a str
RECURSIVE StrJoin(_)
StrJoin(parts) ==
    IF parts = <<>> THEN <<>>
    ELSE IF Len(parts) = 1 THEN parts[1]
    ELSE parts[1] \o <<Space>> \o StrJoin(Tail(parts))

\* str.splitlines(): cur is the line being read
RECURSIVE SplitLinesFrom(_, _)
SplitLinesFrom(s, cur) ==
    IF s = <<>> THEN (IF cur = <<>> THEN <<>> ELSE <<cur>>)
    ELSE IF Head(s) = Newline THEN <<cur>> \o SplitLinesFrom(Tail(s), <<>>)
    ELSE SplitLinesFrom(Tail(s), Append(cur, Head(s)))

SplitLines(s) == SplitLinesFrom(s, <<>>)

\* pdf_canvas.stringWidth(line, "Helvetica", 11)
RECURSIVE StringWidth(_)
StringWidth(s) == IF s = <<>> THEN 0 ELSE Head(s).w + StringWidth(Tail(s))

(***************************************************************************)
(* _wrap_text: the lines returned, each a str                              *)
(***************************************************************************)
\* the variant that drops a word no line can hold
RECURSIVE WrapLoopDropWide(_, _, _)
WrapLoopDropWide(words, current_line, max_width) ==
    IF words = <<>>
    THEN IF current_line # <<>> THEN <<current_line>> ELSE <<>>
    ELSE LET word == Head(words)
             test_line == StrStrip(current_line \o <<Space, word>>)
         IN IF StringWidth(test_line) <= max_width
            THEN WrapLoopDropWide(Tail(words), test_line, max_width)
            ELSE (IF current_line # <<>> THEN <<current_line>> ELSE <<>>)
                 \o WrapLoopDropWide(Tail(words),
                                     IF word.w <= max_width THEN <<word>> ELSE <<>>,
                                     max_width)

RECURSIVE WrapLoop(_, _, _)
WrapLoop(words, current_line, max_width) ==
    IF words = <<>>
    THEN IF current_line # <<>> THEN <<current_line>> ELSE <<>>
    ELSE LET word == Head(words)
             test_line == StrStrip(current_line \o <<Space, word>>)
         IN IF StringWidth(test_line) <= max_width
            THEN WrapLoop(Tail(words), test_line, max_width)
            ELSE (IF current_line # <<>> THEN <<current_line>> ELSE <<>>)
                 \o WrapLoop(Tail(words), <<word>>, max_width)

WrapText(text, max_width) ==
    IF text = <<>>
    THEN <<<<NA>>>>
    ELSE LET lines == WrapLoop(StrSplit(text), <<>>, max_width)
         IN IF lines = <<>> THEN <<<<NA>>>> ELSE lines

(***************************************************************************)
(* _split_into_paragraphs and _split_into_bullet_items: the entries, each  *)
(* a str                                                                   *)
(***************************************************************************)
RECURSIVE ParagraphLoop(_, _, _)
ParagraphLoop(raw_lines, i, buffer) ==
    IF i > Len(raw_lines)
    THEN IF buffer # <<>> THEN <<StrJoin(buffer)>> ELSE <<>>
    ELSE LET stripped == StrStrip(raw_lines[i])
         IN IF stripped # <<>>
            THEN ParagraphLoop(raw_lines, i + 1, Append(buffer, stripped))
            ELSE IF buffer # <<>>
                 THEN <<StrJoin(buffer)>> \o ParagraphLoop(raw_lines, i + 1, <<>>)
                 ELSE ParagraphLoop(raw_lines, i + 1, buffer)

SplitIntoParagraphs(text) ==
    IF text = <<>> THEN <<>> ELSE ParagraphLoop(SplitLines(text), 1, <<>>)

\* the characters of symbols, by code point
BulletSymbols == {"U+2022", "*", "-", "U+2756", "U+F0B6", "U+00B7"}

RECURSIVE StripSymbols(_)
StripSymbols(stripped) ==
    IF stripped # <<>> /\ Head(stripped).s \in BulletSymbols
    THEN StripSymbols(StrStrip(Tail(stripped)))
    ELSE stripped

RECURSIVE BulletLoop(_, _)
BulletLoop(raw_lines, i) ==
    IF i > Len(raw_lines) THEN <<>>
    ELSE LET stripped == StrStrip(raw_lines[i])
         IN IF stripped = <<>>
            THEN BulletLoop(raw_lines, i + 1)
            ELSE <<IF StripSymbols(stripped) # <<>> THEN StripSymbols(stripped) ELSE stripped>>
                 \o BulletLoop(raw_lines, i + 1)

SplitIntoBulletItems(text) ==
    IF text = <<>> THEN <<>> ELSE BulletLoop(SplitLines(text), 1)

(***************************************************************************)
(* _draw_textual_section_page (conclusion, recommendations): entries is    *)
(* the sequence of entries, each a str                                     *)
(***************************************************************************)
\* the variant that draws the text without its bullet
TextItemNoBullet(st, lines, use_bullets) ==
    Cursor(Block(st.c, st.y, lines * Hin(23) + Hin(20)),
           st.y - lines * Hin(23) - (IF use_bullets THEN Hin(8) ELSE Hin(14)),
           st.ret)

\* one entry: the bullet (when use_bullets), then its wrapped lines
TextItem(st, lines, use_bullets) ==
    Cursor(Block(IF use_bullets THEN Draw(st.c, "bullet") ELSE st.c,
                 st.y, lines * Hin(23) + Hin(20)),
           st.y - lines * Hin(23) - (IF use_bullets THEN Hin(8) ELSE Hin(14)),
           st.ret)

RECURSIVE TextLoop(_, _, _, _, _, _)
TextLoop(st, sec, filtered_entries, i, wm, use_bullets) ==
    IF i > Len(filtered_entries)
    THEN [c |-> DrawFooter(st.c, st.ret), ret |-> st.ret]
    ELSE LET available_width == page_width - left_margin - right_margin
                                - (IF use_bullets THEN Hin(28) ELSE 0)
             lines == Len(WrapText(filtered_entries[i], available_width))
             required_height == lines * Hin(23) + Hin(20)
         IN IF st.y - required_height <= bottom_margin
            THEN TextLoop(TextItem(Cursor(PrepareTextSectionHeader(
                                              DrawFooter(st.c, st.ret), sec, wm),
                                          TextSectionY, st.ret + 1),
                                   lines, use_bullets),
                          sec, filtered_entries, i + 1, wm, use_bullets)
            ELSE TextLoop(TextItem(st, lines, use_bullets),
                          sec, filtered_entries, i + 1, wm, use_bullets)

\* the filter of the entries: entry.strip() of every entry that has a word
RECURSIVE FilteredEntries(_)
FilteredEntries(entries) ==
    IF entries = <<>> THEN <<>>
    ELSE (IF StrStrip(Head(entries)) # <<>> THEN <<StrStrip(Head(entries))>> ELSE <<>>)
         \o FilteredEntries(Tail(entries))

DrawTextualSectionPage(c, sec, entries, page_number, wm, use_bullets) ==
    IF FilteredEntries(entries) = <<>>
    THEN [c |-> c, ret |-> page_number - 1]
    ELSE TextLoop(Cursor(PrepareTextSectionHeader(c, sec, wm), TextSectionY, page_number),
                  sec, FilteredEntries(entries), 1, wm, use_bullets)

DrawConclusionPage(c, text, page_number, wm) ==
    DrawTextualSectionPage(c, "conclusion", SplitIntoParagraphs(text), page_number, wm, FALSE)

DrawRecommendationsPage(c, text, page_number, wm) ==
    DrawTextualSectionPage(c, "recommendations", SplitIntoBulletItems(text),
                           page_number, wm, TRUE)

(***************************************************************************)
(* _draw_technical_team_page: entries is the sequence of members, each     *)
(* the wrapped line count of its name and details; links is the number of  *)
(* credential links drawn (link mode "relative" only)                      *)
(***************************************************************************)
TeamItem(st, lines) ==
    Cursor(Block(st.c, st.y, lines * Hin(24) + Hin(30)),
           st.y - lines * Hin(24) - Hin(22), st.ret)

RECURSIVE TeamLoop(_, _, _, _)
TeamLoop(st, entries, i, wm) ==
    IF i > Len(entries)
    THEN st
    ELSE LET required_height == entries[i] * Hin(24) + Hin(30)
         IN IF st.y - required_height <= bottom_margin
            THEN TeamLoop(TeamItem(Cursor(PrepareTextSectionHeader(
                                              DrawFooter(st.c, st.ret), "team", wm),
                                          TextSectionY, st.ret + 1),
                                   entries[i]),
                          entries, i + 1, wm)
            ELSE TeamLoop(TeamItem(st, entries[i]), entries, i + 1, wm)

DrawTechnicalTeamPage(c, entries, links, page_number, wm) ==
    IF entries = <<>>
    THEN [c |-> c, ret |-> page_number - 1]
    ELSE LET r == TeamLoop(Cursor(PrepareTextSectionHeader(c, "team", wm),
                                  TextSectionY, page_number),
                           entries, 1, wm)
             brk == links > 0 /\ r.y - Hin(60) <= bottom_margin
             c1 == IF brk
                   THEN PrepareTextSectionHeader(DrawFooter(r.c, r.ret), "team", wm)
                   ELSE r.c
             p1 == IF brk THEN r.ret + 1 ELSE r.ret
             c2 == IF links > 0 THEN Draw(c1, "links") ELSE c1
         IN [c |-> DrawFooter(c2, p1), ret |-> p1]

(***************************************************************************)
(* _draw_calibration_certificates_page: certificates is the sequence of    *)
(* resolved certificates, each with the line count of its tallest cell     *)
(* and its attachment path (NoPath: none)                                  *)
(***************************************************************************)
\* _estimate_calibration_row_height
EstimateCalibrationRowHeight(entry) == entry.lines * Hin(18) + Hin(18)

CalibrationTableY == TextSectionY - Hin(38)

CalibrationItem(st, row_height) ==
    Cursor(Block(st.c, st.y, row_height), st.y - row_height, st.ret)

RECURSIVE CalibrationLoop(_, _, _, _)
CalibrationLoop(st, certificates, i, wm) ==
    IF i > Len(certificates)
    THEN st
    ELSE LET row_height == EstimateCalibrationRowHeight(certificates[i])
         IN IF st.y - row_height <= bottom_margin
            THEN CalibrationLoop(
                     CalibrationItem(
                         Cursor(Draw(PrepareTextSectionHeader(DrawFooter(st.c, st.ret),
                                                              "certs", wm),
                                     "table_header"),
                                CalibrationTableY, st.ret + 1),
                         row_height),
                     certificates, i + 1, wm)
            ELSE CalibrationLoop(CalibrationItem(st, row_height),
                                 certificates, i + 1, wm)

DrawCalibrationCertificatesPage(c, certificates, page_number, wm) ==
    IF certificates = <<>>
    THEN [c |-> c, ret |-> page_number - 1]
    ELSE LET r == CalibrationLoop(
                      Cursor(Draw(PrepareTextSectionHeader(c, "certs", wm),
                                  "table_header"),
                             CalibrationTableY, page_number),
                      certificates, 1, wm)
             has_attachments == \E k \in 1..Len(certificates) :
                                    certificates[k].attachment # NoPath
             brk == has_attachments /\ r.y - Hin(28) <= bottom_margin
             c1 == IF brk
                   THEN PrepareTextSectionHeader(DrawFooter(r.c, r.ret), "certs", wm)
                   ELSE r.c
             p1 == IF brk THEN r.ret + 1 ELSE r.ret
             c2 == IF has_attachments THEN Draw(c1, "note") ELSE c1
         IN [c |-> DrawFooter(c2, p1), ret |-> p1]

(***************************************************************************)
(* Protocol documents: _draw_audiometry_protocol_page and                  *)
(* _draw_spirometry_protocol_page (same layout, different texts), drawn    *)
(* with start_new_page = False on a canvas of their own.                   *)
(* images is the sequence of the heights of the protocol images found on   *)
(* disk, in the expected order; the texts are given by their wrapped line  *)
(* counts at the page's text width.                                        *)
(***************************************************************************)
ProtocolHeaderY ==
    HeaderBrandingY - Hin(35) - Hin(18) - Hin(35) - Hin(16) - Hin(28)

ProtocolContY == HeaderBrandingY - Hin(35)

\* the variant that opens the continuation page without the watermark
PrepareProtocolContinuationPageBare(c, sec, wm) ==
    [DrawHeaderBranding(ShowPage(c)) EXCEPT !.cur.sec = sec]

\* _prepare_protocol_continuation_page
PrepareProtocolContinuationPage(c, sec, wm) ==
    [DrawHeaderBranding(AddWatermarkLogo(ShowPage(c), wm)) EXCEPT !.cur.sec = sec]

ProtocolBreak(st, sec, wm) ==
    Cursor(PrepareProtocolContinuationPage(DrawFooter(st.c, st.ret), sec, wm),
           ProtocolContY, st.ret + 1)

\* _draw_protocol_image: height 0 stands for no image
DrawProtocolImage(st, sec, height, max_height, wm) ==
    IF height = 0
    THEN st
    ELSE LET draw_height == Min(height, max_height)
             brk == st.y - draw_height - Hin(20) <= bottom_margin
             st1 == IF brk THEN ProtocolBreak(st, sec, wm) ELSE st
         IN Cursor(Draw(st1.c, "image"), st1.y - draw_height - Hin(20), st1.ret)

RECURSIVE ProtocolIntroLoop(_, _, _, _)
ProtocolIntroLoop(st, sec, n, wm) ==
    IF n = 0
    THEN st
    ELSE LET brk == st.y - Hin(23) <= bottom_margin
             st1 == IF brk THEN ProtocolBreak(st, sec, wm) ELSE st
         IN ProtocolIntroLoop(Cursor(Draw(st1.c, "item"), st1.y - Hin(23), st1.ret),
                              sec, n - 1, wm)

ImageAt(images, k) == IF k <= Len(images) THEN images[k] ELSE 0

RECURSIVE ProtocolStepsLoop(_, _, _, _, _, _)
ProtocolStepsLoop(st, sec, steps, images, idx, wm) ==
    IF idx > Len(steps)
    THEN [c |-> DrawFooter(st.c, st.ret), ret |-> st.ret]
    ELSE LET st0 == IF idx = 3 THEN ProtocolBreak(st, sec, wm) ELSE st
             required_height == steps[idx] * Hin(23) + Hin(12)
             brk == st0.y - required_height <= bottom_margin
             st1 == IF brk THEN ProtocolBreak(st0, sec, wm) ELSE st0
             st2 == Cursor(Block(st1.c, st1.y, required_height),
                           st1.y - steps[idx] * Hin(23) - Hin(12), st1.ret)
             \* step_images = protocol_images[1:5]
         IN ProtocolStepsLoop(DrawProtocolImage(st2, sec, ImageAt(images, idx + 1),
                                                Hin(135), wm),
                              sec, steps, images, idx + 1, wm)

DrawProtocolPage(c, sec, intro_lines, steps, images, page_number, wm) ==
    LET c0 == Draw(Title(DrawHeaderBranding(AddWatermarkLogo(c, wm)), sec), "title")
        r1 == ProtocolIntroLoop(Cursor(c0, ProtocolHeaderY, page_number),
                                sec, intro_lines, wm)
        r2 == DrawProtocolImage(r1, sec, ImageAt(images, 1), Hin(260), wm)
        c3 == PrepareTextSectionHeader(DrawFooter(r2.c, r2.ret), sec, wm)
    IN ProtocolStepsLoop(Cursor(c3, TextSectionY, r2.ret + 1),
                         sec, steps, images, 1, wm)

\* wrapped line counts of the fixed protocol texts (intro, steps 1..4)
AudiometryIntroLines == 2
AudiometrySteps == <<2, 2, 3, 3>>
SpirometryIntroLines == 2
SpirometrySteps == <<2, 2, 3, 3>>

\* _render_audiometry_protocol_pdf / _render_spirometry_protocol_pdf:
\* the pages of the temporary protocol document
RenderProtocolPdf(name, images, wm) ==
    LET r == IF name = "audiometria"
             THEN DrawProtocolPage(NewCanvas, "proto_audiometria", AudiometryIntroLines,
                                   AudiometrySteps, images, 1, wm)
             ELSE DrawProtocolPage(NewCanvas, "proto_espirometria", SpirometryIntroLines,
                                   SpirometrySteps, images, 1, wm)
    IN SaveCanvas(r.c)

(***************************************************************************)
(* The files an attachment path can name.  A path is a pair of the kind of *)
(* file it names and a number; NoPath stands for an empty (falsy) entry.   *)
(***************************************************************************)
AttPage(text, contents) ==
    [sec |-> "attachment", ops |-> <<>>, footers |-> <<>>, listed |-> <<>>,
     low |-> page_height, text |-> text, contents |-> contents, path |-> NoPath, idx |-> 0, sect |-> 0]

TextPage == AttPage(<<72, 105>>, <<66, 84, 32, 69, 84>>)
\* no text, no content stream
NoContentPage == AttPage(<<>>, <<-1>>)
\* whitespace text, content stream of space, LF, TAB, CR only
WhitespacePage == AttPage(<<32, 10>>, <<32, 10, 9, 13>>)
\* image only: no text, a content stream that paints
ImageOnlyPage == AttPage(<<>>, <<113, 32, 81>>)
\* no text, content stream holding only a form feed
FormFeedPage == AttPage(<<12>>, <<12>>)
\* extract_text raises on this page
RaisingPage == AttPage(<<-1>>, <<-1>>)
\* no text, and get_data raises on the content stream
UnreadableStreamPage == AttPage(<<>>, <<-2>>)
\* no text, an empty content stream
EmptyStreamPage == AttPage(<<>>, <<>>)

\* a file of two text pages, a file mixing blank and non-blank pages, a file
\* whose third page cannot be read, a file PdfReader cannot open
TwoPagePath == <<"two_pages", 0>>
MixedPath == <<"mixed", 0>>
TruncatedPath == <<"truncated", 0>>
CorruptPath == <<"corrupt", 0>>
\* the path that never exists, and the path that exists when the report is
\* resolved and may be gone at assembly
MissingPath == <<"missing", 0>>
VolatilePath == <<"volatile", 0>>
\* the k-th of the plain one-page files
PlainPath(k) == <<"plain", k>>

\* failAt = k > 0: reading the file raises when its k-th page is reached
\* (k = 1: PdfReader itself raises)
FileDoc(p) ==
    CASE p[1] = "two_pages" -> [pages |-> <<TextPage, TextPage>>, failAt |-> 0]
      [] p[1] = "mixed" ->
             [pages |-> <<NoContentPage, ImageOnlyPage, WhitespacePage, FormFeedPage,
                          RaisingPage, EmptyStreamPage, UnreadableStreamPage,
                          TextPage>>,
              failAt |-> 0]
      [] p[1] = "truncated" ->
             [pages |-> <<TextPage, NoContentPage, TextPage>>, failAt |-> 3]
      [] p[1] = "corrupt" -> [pages |-> <<TextPage>>, failAt |-> 1]
      [] OTHER -> [pages |-> <<TextPage>>, failAt |-> 0]

(***************************************************************************)
(* _is_blank_pdf_page                                                      *)
(***************************************************************************)
\* str.strip() removes leading and trailing whitespace characters
StrWhitespace == {9, 10, 11, 12, 13, 28, 29, 30, 31, 32}
StripsToEmpty(text) == \A k \in 1..Len(text) : text[k] \in StrWhitespace

\* data.translate(None, b" \t\r\n")
TranslateDelete(data) == SelectSeq(data, LAMBDA b : b \notin {32, 9, 13, 10})

\* variant whose except clause answers True
IsBlankPdfPageLenient(page) ==
    IF page.text = <<-1>>
    THEN TRUE
    ELSE StripsToEmpty(page.text)
         /\ (page.contents \in {<<-1>>, <<-2>>, <<>>}
             \/ Len(TranslateDelete(page.contents)) = 0)

\* the except clause answers False when extract_text (text <<-1>>) or
\* get_data (contents <<-2>>) raises
IsBlankPdfPage(page) ==
    IF page.text = <<-1>> \/ (StripsToEmpty(page.text) /\ page.contents = <<-2>>)
    THEN FALSE
    ELSE IF ~StripsToEmpty(page.text)
         THEN FALSE
         ELSE IF page.contents = <<-1>> \/ page.contents = <<>>
              THEN TRUE
              ELSE Len(TranslateDelete(page.contents)) = 0

(***************************************************************************)
(* _resolve_file_list, _resolve_calibration_files,                         *)
(* _resolve_calibration_certificates, _resolve_technical_team,             *)
(* _determine_result_dataset_keys, _group_evaluated_entries                *)
(***************************************************************************)
InSeq(x, q) == \E k \in 1..Len(q) : q[k] = x

RECURSIVE ResolveLoop(_, _, _, _)
ResolveLoop(candidates, i, exists, resolved) ==
    IF i > Len(candidates)
    THEN resolved
    ELSE LET item == candidates[i]
         IN ResolveLoop(candidates, i + 1, exists,
                IF item # NoPath /\ item \in exists /\ ~InSeq(item, resolved)
                THEN Append(resolved, item)
                ELSE resolved)

ResolveFileList(raw_value, exists) == ResolveLoop(raw_value, 1, exists, <<>>)

\* variant without the os.path.exists filter of line 2228
ResolveCalibrationFilesUnfiltered(report_data, exists) ==
    LET raw_entries == report_data.calibration_certificates
        from_entries == [k \in 1..Len(raw_entries) |-> raw_entries[k].attachment]
        candidates == report_data.calibration_files \o from_entries
    IN ResolveLoop(candidates, 1, {candidates[k] : k \in 1..Len(candidates)}, <<>>)

ResolveCalibrationFiles(report_data, exists) ==
    LET raw_entries == report_data.calibration_certificates
        from_entries == [k \in 1..Len(raw_entries) |-> raw_entries[k].attachment]
    IN ResolveLoop(report_data.calibration_files \o from_entries, 1, exists, <<>>)

\* entries without equipment and certificate number are dropped
ResolveCalibrationCertificates(report_data) ==
    SelectSeq(report_data.calibration_certificates, LAMBDA e : e.identified)

\* a member is the wrapped line count of its name and details; 0: no name
DefaultTechnicalTeam == <<3, 3>>

\* the variant without the default team
ResolveTechnicalTeamNoDefault(report_data) ==
    LET raw_team == report_data.technical_team
        resolved == SelectSeq(raw_team.members, LAMBDA m : m # 0)
    IN IF resolved # <<>>
       THEN resolved
       ELSE IF report_data.evaluator_profile # 0
            THEN <<report_data.evaluator_profile>>
            ELSE <<>>

ResolveTechnicalTeam(report_data) ==
    LET raw_team == report_data.technical_team
        resolved == SelectSeq(raw_team.members, LAMBDA m : m # 0)
    IN IF resolved # <<>>
       THEN resolved
       ELSE IF report_data.evaluator_profile # 0
            THEN <<report_data.evaluator_profile>>
            ELSE IF ~raw_team.given THEN DefaultTechnicalTeam ELSE <<>>

\* "audiometr" in normalized and "espiro" in normalized, where normalized
\* is (report_type or "").lower()
HasAudiometr(report_type) == Contains(StrLower(report_type), Tok.audiometr)
HasEspiro(report_type) == Contains(StrLower(report_type), Tok.espiro)

\* variant with the two keys of a combined report exchanged
DetermineResultDatasetKeysSwapped(report_type) ==
    IF HasAudiometr(report_type) /\ HasEspiro(report_type)
    THEN <<"espirometria", "audiometria">>
    ELSE IF HasEspiro(report_type)
         THEN <<"espirometria">>
         ELSE <<"audiometria">>

DetermineResultDatasetKeys(report_type) ==
    IF HasAudiometr(report_type) /\ HasEspiro(report_type)
    THEN <<"audiometria", "espirometria">>
    ELSE IF HasEspiro(report_type)
         THEN <<"espirometria">>
         ELSE <<"audiometria">>

\* _infer_dataset_from_entry (the codes of the records checked are in lower
\* case, which lower() leaves as they are)
InferDatasetFromEntry(entry) ==
    LET explicit == StrLower(entry.test_type)
        label == StrLower(IF entry.result_label # <<>> THEN entry.result_label
                          ELSE entry.result)
    IN IF Contains(explicit, Tok.espiro) THEN "espirometria"
       ELSE IF Contains(explicit, Tok.audio) THEN "audiometria"
       ELSE IF entry.result_code \in ValidKeys("espirometria") THEN "espirometria"
       ELSE IF Contains(label, Tok.obstrucci) \/ Contains(label, Tok.restricci)
            THEN "espirometria"
            ELSE "audiometria"

\* _group_evaluated_entries, then grouped_entries.get(dataset_key, [])
GroupedEntries(evaluated, dataset_key) ==
    SelectSeq(evaluated, LAMBDA e : InferDatasetFromEntry(e) = dataset_key)

ShouldIncludeAudiometryProtocol(report_type) ==
    HasAudiometr(report_type) /\ ~HasEspiro(report_type)

ShouldIncludeSpirometryProtocol(report_type) ==
    HasEspiro(report_type) /\ ~HasAudiometr(report_type)

(***************************************************************************)
(* _append_supporting_pdfs: the pages handed to the writer                 *)
(***************************************************************************)
\* the inner try of one file: pages are added one by one until the file
\* ends or reading raises; the except keeps what was added so far
RECURSIVE ReadLoop(_, _, _, _, _)
ReadLoop(doc, p, sect, i, writer) ==
    IF i > Len(doc.pages) \/ i = doc.failAt
    THEN writer
    ELSE ReadLoop(doc, p, sect, i + 1,
                  IF IsBlankPdfPage(doc.pages[i])
                  THEN writer
                  ELSE Append(writer, [doc.pages[i] EXCEPT !.path = p, !.idx = i,
                                                            !.sect = sect]))

\* for file_path in section.get("files", []): the pages the files add
RECURSIVE FilesLoop(_, _, _, _)
FilesLoop(files, k, sect, exists) ==
    IF k > Len(files)
    THEN <<>>
    ELSE (IF files[k] \notin exists
          THEN <<>>
          ELSE ReadLoop(FileDoc(files[k]), files[k], sect, 1, <<>>))
         \o FilesLoop(files, k + 1, sect, exists)

\* while section_index < len(ordered_sections): the pages spliced after the
\* base page page_idx, and the section index the loop stops at
RECURSIVE SectionsLoop(_, _, _, _)
SectionsLoop(ordered_sections, section_index, page_idx, exists) ==
    IF section_index > Len(ordered_sections)
    THEN [writer |-> <<>>, section_index |-> section_index]
    ELSE IF ordered_sections[section_index].cover_end # page_idx
         THEN [writer |-> <<>>, section_index |-> section_index]
         ELSE LET r == SectionsLoop(ordered_sections, section_index + 1, page_idx,
                                    exists)
              IN [writer |-> FilesLoop(ordered_sections[section_index].files, 1,
                                       section_index, exists) \o r.writer,
                  section_index |-> r.section_index]

RECURSIVE BaseLoop(_, _, _, _, _)

\* variant running the while loop of lines 2266-2285 before writer.add_page
BaseLoopSpliceFirst(base, page_idx, ordered_sections, section_index, exists) ==
    IF page_idx > Len(base)
    THEN <<>>
    ELSE LET r == SectionsLoop(ordered_sections, section_index, page_idx, exists)
         IN (r.writer \o <<base[page_idx]>>)
            \o BaseLoop(base, page_idx + 1, ordered_sections, r.section_index, exists)

\* for page_idx, page in enumerate(reader.pages, start=1): the pages handed
\* to the writer from base page page_idx on
BaseLoop(base, page_idx, ordered_sections, section_index, exists) ==
    IF page_idx > Len(base)
    THEN <<>>
    ELSE LET r == SectionsLoop(ordered_sections, section_index, page_idx, exists)
         IN (<<base[page_idx]>> \o r.writer)
            \o BaseLoop(base, page_idx + 1, ordered_sections, r.section_index, exists)

\* for trailing_path in trailing_pdfs: docs are the protocol documents still
\* on disk, in the order of trailing_pdfs
RECURSIVE TrailingLoop(_, _)
TrailingLoop(docs, k) ==
    IF k > Len(docs)
    THEN <<>>
    ELSE ReadLoop([pages |-> docs[k], failAt |-> 0], NoPath, 0, 1, <<>>)
         \o TrailingLoop(docs, k + 1)

\* variant running the trailing loop of lines 2287-2297 first
AppendSupportingPdfsTrailingFirst(base, attachment_sections, docs, exists) ==
    TrailingLoop(docs, 1) \o BaseLoop(base, 1, attachment_sections, 1, exists)

AppendSupportingPdfs(base, attachment_sections, docs, exists) ==
    BaseLoop(base, 1, attachment_sections, 1, exists) \o TrailingLoop(docs, 1)

(***************************************************************************)
(* The report records and environments checked                             *)
(***************************************************************************)
\* an evaluated person: name, test_type, result_code ("" when absent), the
\* labels result_label, result and results.status (<<>> when absent), and
\* the number of wrapped lines of the tallest cell of the person's row
EvaluatedEntry(name, test_type, result_code, result_label, lines) ==
    [name |-> name, test_type |-> test_type, result_code |-> result_code,
     result_label |-> result_label, result |-> <<>>, status |-> <<>>,
     lines |-> lines]

Entry(name, test_type, lines) == EvaluatedEntry(name, test_type, "", <<>>, lines)

\* entry.get("test_type")
TestType ==
    [audiometria |-> <<"a", "u", "d", "i", "o", "m", "e", "t", "r", "i", "a">>,
     espirometria |-> <<"E", "s", "p", "i", "r", "o", "m", "e", "t", "r", "i'", "a">>,
     absent |-> <<>>]

Certificate(lines, attachment, identified) ==
    [lines |-> lines, attachment |-> attachment, identified |-> identified]

\* n distinct plain paths
PlainList(n) == [k \in 1..n |-> PlainPath(k)]

\* report_data.get("type", ""): the three types the form offers, a type
\* naming no test, no type at all, and a type naming spirometry in short
Type ==
    [audiometria |-> <<"a", "u", "d", "i", "o", "m", "e", "t", "r", "i'", "a">>,
     espirometria |-> <<"e", "s", "p", "i", "r", "o", "m", "e", "t", "r", "i'",
            "a">>,
     combinado |-> <<"a", "u", "d", "i", "o", "m", "e", "t", "r", "i'", "a",
            " ", "+", " ", "e", "s", "p", "i", "r", "o",
            "m", "e", "t", "r", "i'", "a">>,
     otro |-> <<"o", "t", "r", "o">>,
     absent |-> <<>>,
     abbreviated |-> <<"A", "u", "d", "i", "o", "m", "e", "t", "r", "i'", "a",
            " ", "y", " ", "E", "s", "p", "i", "r", "o">>]

ReportTypes == {Type.audiometria, Type.espirometria, Type.combinado, Type.otro}

EvaluatedChoices ==
    { <<>>,
      <<Entry(1, TestType.espirometria, 2), Entry(2, TestType.audiometria, 1)>>,
      [k \in 1..ManyRows |-> Entry(k, TestType.audiometria, 1)]
          \o <<Entry(ManyRows + 1, TestType.espirometria, 1)>> }

\* a text field of the record: absent (None), or a str
Missing == [given |-> FALSE, text |-> <<>>]
Given(text) == [given |-> TRUE, text |-> text]

\* n words separated by single spaces, each of them a wrapped line
RECURSIVE Sentence(_)
Sentence(n) ==
    IF n = 0 THEN <<>>
    ELSE IF n = 1 THEN <<Word("w", 40000)>>
    ELSE <<Word("w", 40000), Space>> \o Sentence(n - 1)

\* three paragraphs of eight wrapped lines, parted by blank lines
LongText ==
    Sentence(8) \o <<Newline, Space, Newline>> \o Sentence(8)
    \o <<Newline, Newline>> \o Sentence(8) \o <<Newline>>

\* two bulleted lines, the second one nothing but its symbol
BulletText ==
    <<Word("U+2022", 385), Space>> \o Sentence(2) \o <<Newline, Space, Word("-", 366)>>

WhitespaceText == <<Space, Newline, Space>>

\* the narrative sections: company profile (wrapped line counts of its
\* rows), conclusion and recommendations (text fields), technical team,
\* calibration certificates
Body(company_rows, conclusion, recommendations, technical_team, calibration_certificates) ==
    [company_rows |-> company_rows,
     conclusion |-> conclusion, recommendations |-> recommendations,
     technical_team |-> technical_team,
     calibration_certificates |-> calibration_certificates]

ShortRows == <<1, 1, 1, 1, 1>>
TallRows == <<6, 6, 6, 1, 1>>

BodyChoices ==
    { Body(ShortRows, Missing, Missing, [given |-> TRUE, members |-> <<0>>], <<>>),
      Body(ShortRows, Given(WhitespaceText), Given(<<>>),
           [given |-> TRUE, members |-> <<0>>], <<>>),
      Body(ShortRows, Given(LongText), Missing, [given |-> FALSE, members |-> <<>>],
           <<Certificate(2, MixedPath, TRUE), Certificate(1, NoPath, FALSE)>>),
      Body(TallRows, Given(LongText), Given(BulletText),
           [given |-> TRUE, members |-> <<3, 0>>],
           <<Certificate(2, NoPath, TRUE)>>) }

CalibrationFileChoices ==
    { <<>>, <<TwoPagePath, MissingPath, MixedPath>>, PlainList(LongList) }
AudiogramFileChoices == { <<>>, <<VolatilePath, TruncatedPath>> }
SpirometryFileChoices ==
    { <<>>, <<CorruptPath, TwoPagePath, NoPath, TwoPagePath>> }
AttendanceFileChoices == { <<>>, <<MixedPath>>, PlainList(VeryLongList) }

Report(t, ev, b, cf, af, sf, tf, l) ==
    [type |-> t,
     evaluated |-> ev,
     company_rows |-> b.company_rows,
     conclusion |-> b.conclusion,
     recommendations |-> b.recommendations,
     technical_team |-> b.technical_team,
     evaluator_profile |-> 0,
     credential_links |-> 0,
     calibration_certificates |-> b.calibration_certificates,
     calibration_files |-> cf,
     audiogram_files |-> af,
     spirometry_files |-> sf,
     attendance_files |-> tf,
     logo |-> l,
     matplotlib |-> TRUE,
     images |-> <<>>]

Reports(types, logos) ==
    { Report(t, ev, b, cf, af, sf, tf, l) :
      t \in types, ev \in EvaluatedChoices, b \in BodyChoices,
      cf \in CalibrationFileChoices, af \in AudiogramFileChoices,
      sf \in SpirometryFileChoices, tf \in AttendanceFileChoices, l \in logos }

\* four spirometries, one of each of four result codes
FourSpirometries ==
    << EvaluatedEntry(1, TestType.espirometria, "espiro_normal", <<>>, 1),
       EvaluatedEntry(2, TestType.espirometria, "restriccion_leve", <<>>, 1),
       EvaluatedEntry(3, TestType.espirometria, "obstruccion_moderada", <<>>, 1),
       EvaluatedEntry(4, TestType.espirometria, "restriccion_grave", <<>>, 1) >>

\* the spirometry report without attachments, texts or evaluator profile:
\* technical_team is absent (None) or an empty list
SpirometryReport(team_given, l) ==
    Report(Type.espirometria, FourSpirometries,
           Body(ShortRows, Given(<<>>), Given(<<>>),
                [given |-> team_given, members |-> <<>>], <<>>),
           <<>>, <<>>, <<>>, <<>>, l)

SpirometryReports ==
    { SpirometryReport(team_given, l) : team_given \in BOOLEAN, l \in {"none", "ok"} }

\* number of wrapped lines of a paragraph taller than the body of a page
TallParagraph == 21

\* a report whose conclusion is one paragraph of TallParagraph lines
TallParagraphReports ==
    { Report(Type.audiometria, ev,
             Body(ShortRows, Given(Sentence(TallParagraph)), Missing,
                  [given |-> TRUE, members |-> <<>>], <<>>),
             <<>>, <<>>, <<>>, <<>>, l) :
      ev \in EvaluatedChoices, l \in {"none", "ok"} }

\* reports without a type and with a type that names spirometry in short
UnusualTypeReports ==
    { Report(t, ev,
             Body(ShortRows, Missing, Missing, [given |-> TRUE, members |-> <<>>], <<>>),
             <<>>, <<>>, <<>>, <<>>, l) :
      t \in {Type.absent, Type.abbreviated}, ev \in EvaluatedChoices,
      l \in {"none", "ok"} }

\* rows of the company profile the last of which fills the page
FillingRows == <<6, 5, 1, 1, 1>>

FilledCompanyReports ==
    { Report(Type.espirometria, ev,
             Body(FillingRows, Missing, Missing, [given |-> TRUE, members |-> <<>>], <<>>),
             <<>>, <<>>, <<>>, <<>>, l) :
      ev \in EvaluatedChoices, l \in {"none", "ok"} }

\* every path but the missing one exists when generate is called
AllPaths ==
    {TwoPagePath, MixedPath, TruncatedPath, CorruptPath, VolatilePath}
        \cup {PlainPath(k) : k \in 1..VeryLongList}

(***************************************************************************)
(* State of one call of PDFGenerator.generate                              *)
(***************************************************************************)
VARIABLES
    report_data,          \* the caller's record, with the logo given and the
                          \* resources (protocol images, matplotlib) found
    fs,                   \* attachment paths that exist on disk
    pc,                   \* position in generate
    canvas,               \* pdf_canvas
    current_page,         \* current_page (company_last_page, last_page before it)
    attachment_sections,  \* attachment_sections
    di,                   \* index of the dataset key the results loop is at
    temp_pdf_path,        \* TRUE while temp_pdf_path holds the path, FALSE: None
    temps,                \* temporary files that exist on disk
    base_doc,             \* pages of the temporary base document once saved
    protocol_pdf,         \* names of the protocol documents rendered so far
    proto_docs,           \* their pages, in the same order
    out,                  \* what is at output_path
    result,               \* how the call ended
    events                \* what went wrong during the call

vars == <<report_data, fs, pc, canvas, current_page, attachment_sections, di,
          temp_pdf_path, temps, base_doc, protocol_pdf, proto_docs, out, result,
          events>>

InitWith(reports) ==
    /\ report_data \in reports
    /\ fs = AllPaths
    /\ pc = "start"
    /\ canvas = NewCanvas
    /\ current_page = 0
    /\ attachment_sections = <<>>
    /\ di = 1
    /\ temp_pdf_path = FALSE
    /\ temps = {}
    /\ base_doc = <<>>
    /\ protocol_pdf = <<>>
    /\ proto_docs = <<>>
    /\ out = [state |-> "absent", doc |-> <<>>]
    /\ result = "running"
    /\ events = {}

Init ==
    InitWith(Reports(ReportTypes, {"none", "ok"}) \cup SpirometryReports
                 \cup TallParagraphReports \cup UnusualTypeReports
                 \cup FilledCompanyReports)

\* how _add_watermark_logo fares during the call: report_data.logo is
\* "none" (no logo given), "ok", "fail_open" (Image.open raises: no raster
\* is written) or "fail_draw" (the raster is written and drawing it raises)
Watermark ==
    IF report_data.logo = "none"
    THEN "none"
    ELSE IF report_data.logo = "ok" THEN "ok" ELSE "fail"

\* temp_watermark.png after a step that applied the watermark
AfterWatermark ==
    IF report_data.logo = "fail_draw"
    THEN temps \cup {"watermark"}
    ELSE IF report_data.logo = "ok" THEN temps \ {"watermark"} ELSE temps

(***************************************************************************)
(* generate, step by step                                                  *)
(***************************************************************************)
\* the variant in which the default team is stored into the caller's record
ReportDataAfterStoringTeam(r) ==
    IF r.technical_team.given
    THEN r
    ELSE [r EXCEPT !.technical_team = [given |-> TRUE, members |-> DefaultTechnicalTeam]]

\* the caller's record after a step of generate: the renderers and the
\* resolvers read it with get and build anew the lists they return
\* (grouped, resolved, details, files); none of them assigns into it
ReportDataAfter(r) == r

\* a renderer was called: its canvas and returned page become the state
Rendered(r, next) ==
    /\ canvas' = r.c
    /\ current_page' = r.ret
    /\ temps' = AfterWatermark
    /\ pc' = next

\* the variant that counts a page for the section left out
SkippedCounted(next) ==
    /\ pc' = next
    /\ current_page' = current_page + 1
    /\ UNCHANGED <<canvas, temps>>

Skipped(next) ==
    /\ pc' = next
    /\ UNCHANGED <<canvas, current_page, temps>>

DatasetKeys == DetermineResultDatasetKeys(report_data.type)

AfterDataset(d) == IF d > Len(DatasetKeys) THEN "conclusion" ELSE "table"

\* lines 59-75: output directory, temporary file, canvas, cover page
Start ==
    /\ pc = "start"
    /\ temp_pdf_path' = TRUE
    /\ canvas' = DrawFooter(DrawHeader(AddWatermarkLogo(NewCanvas, Watermark)), 1)
    /\ temps' = AfterWatermark \cup {"base"}
    /\ pc' = "toc"
    /\ report_data' = ReportDataAfter(report_data)
    /\ UNCHANGED <<fs, current_page, attachment_sections, di, base_doc,
                   protocol_pdf, proto_docs, out, result, events>>

\* lines 76-81
TableOfContents ==
    /\ pc = "toc"
    /\ Rendered(DrawTableOfContents(canvas, report_data.type, 2, Watermark), "company")
    /\ report_data' = ReportDataAfter(report_data)
    /\ UNCHANGED <<fs, attachment_sections, di, temp_pdf_path, base_doc,
                   protocol_pdf, proto_docs, out, result, events>>

\* lines 82-92
CompanyProfile ==
    /\ pc = "company"
    /\ Rendered(DrawCompanyProfilePage(canvas, report_data.company_rows,
                                       current_page + 1, Watermark), AfterDataset(1))
    /\ di' = 1
    /\ report_data' = ReportDataAfter(report_data)
    /\ UNCHANGED <<fs, attachment_sections, temp_pdf_path, base_doc,
                   protocol_pdf, proto_docs, out, result, events>>

\* lines 93-104: one turn of the dataset loop up to the results table
ResultsTable ==
    /\ pc = "table"
    /\ LET dataset_key == DatasetKeys[di]
           entries == GroupedEntries(report_data.evaluated, dataset_key)
       IN IF entries = <<>>
          THEN /\ Skipped(AfterDataset(di + 1))
               /\ di' = di + 1
          ELSE /\ Rendered(DrawResultsTablePage(canvas, "table_" \o dataset_key, entries,
                                                current_page + 1, Watermark), "stats")
               /\ di' = di
    /\ report_data' = ReportDataAfter(report_data)
    /\ UNCHANGED <<fs, attachment_sections, temp_pdf_path, base_doc,
                   protocol_pdf, proto_docs, out, result, events>>

\* lines 105-112: the statistics page of the same dataset
ResultsStatistics ==
    /\ pc = "stats"
    /\ LET dataset_key == DatasetKeys[di]
           entries == GroupedEntries(report_data.evaluated, dataset_key)
       IN Rendered(DrawResultsStatisticsPage(canvas, dataset_key, entries,
                                             current_page + 1, Watermark,
                                             report_data.matplotlib), AfterDataset(di + 1))
    /\ di' = di + 1
    /\ report_data' = ReportDataAfter(report_data)
    /\ UNCHANGED <<fs, attachment_sections, temp_pdf_path, base_doc,
                   protocol_pdf, proto_docs, out, result, events>>

\* (report_data.get(key) or "").strip()
TextOrEmpty(field) == IF field.given THEN field.text ELSE <<>>
ConclusionText(r) == StrStrip(TextOrEmpty(r.conclusion))
RecommendationsText(r) == StrStrip(TextOrEmpty(r.recommendations))

\* lines 114-122
Conclusion ==
    /\ pc = "conclusion"
    /\ IF ConclusionText(report_data) # <<>>
       THEN Rendered(DrawConclusionPage(canvas, ConclusionText(report_data),
                                        current_page + 1, Watermark), "recommendations")
       ELSE Skipped("recommendations")
    /\ report_data' = ReportDataAfter(report_data)
    /\ UNCHANGED <<fs, attachment_sections, di, temp_pdf_path, base_doc,
                   protocol_pdf, proto_docs, out, result, events>>

\* lines 124-132
Recommendations ==
    /\ pc = "recommendations"
    /\ IF RecommendationsText(report_data) # <<>>
       THEN Rendered(DrawRecommendationsPage(canvas, RecommendationsText(report_data),
                                             current_page + 1, Watermark), "team")
       ELSE Skipped("team")
    /\ report_data' = ReportDataAfter(report_data)
    /\ UNCHANGED <<fs, attachment_sections, di, temp_pdf_path, base_doc,
                   protocol_pdf, proto_docs, out, result, events>>

\* lines 134-142
TechnicalTeam ==
    /\ pc = "team"
    /\ LET technical_team == ResolveTechnicalTeam(report_data)
       IN IF technical_team # <<>>
          THEN Rendered(DrawTechnicalTeamPage(canvas, technical_team,
                                              report_data.credential_links,
                                              current_page + 1, Watermark), "certificates")
          ELSE Skipped("certificates")
    /\ report_data' = ReportDataAfter(report_data)
    /\ UNCHANGED <<fs, attachment_sections, di, temp_pdf_path, base_doc,
                   protocol_pdf, proto_docs, out, result, events>>

\* lines 144-152
CalibrationCertificates ==
    /\ pc = "certificates"
    /\ LET calibration_certificates == ResolveCalibrationCertificates(report_data)
       IN IF calibration_certificates # <<>>
          THEN Rendered(DrawCalibrationCertificatesPage(canvas, calibration_certificates,
                                                        current_page + 1, Watermark), "cover_calibration")
          ELSE Skipped("cover_calibration")
    /\ report_data' = ReportDataAfter(report_data)
    /\ UNCHANGED <<fs, attachment_sections, di, temp_pdf_path, base_doc,
                   protocol_pdf, proto_docs, out, result, events>>

\* the section record appended after a cover was drawn
SectionRecord(files, cover_end, cover_start) ==
    [files |-> files, cover_end |-> cover_end, cover_start |-> cover_start]

\* lines 154-228: one attachment bucket
AttachmentCover(here, sec, files, next) ==
    /\ pc = here
    /\ IF files # <<>>
       THEN LET cover_start == current_page + 1
                r == DrawAttachmentCoverPage(canvas, sec, files, current_page + 1,
                                             Watermark)
            IN /\ Rendered(r, next)
               /\ attachment_sections' =
                      Append(attachment_sections, SectionRecord(files, r.ret, cover_start))
       ELSE /\ Skipped(next)
            /\ UNCHANGED attachment_sections
    /\ report_data' = ReportDataAfter(report_data)
    /\ UNCHANGED <<fs, di, temp_pdf_path, base_doc, protocol_pdf,
                   proto_docs, out, result, events>>

CalibrationCover ==
    AttachmentCover("cover_calibration", "att_calibration",
                    ResolveCalibrationFiles(report_data, fs), "cover_audiograms")

AudiogramCover ==
    AttachmentCover("cover_audiograms", "att_audiograms",
                    ResolveFileList(report_data.audiogram_files, fs), "cover_spirometry")

SpirometryCover ==
    AttachmentCover("cover_spirometry", "att_spirometry",
                    ResolveFileList(report_data.spirometry_files, fs), "cover_attendance")

AttendanceCover ==
    AttachmentCover("cover_attendance", "att_attendance",
                    ResolveFileList(report_data.attendance_files, fs), "save")

\* lines 238-246: the protocol documents the report type asks for
ProtocolsFor(report_type) ==
    IF HasAudiometr(report_type) /\ HasEspiro(report_type)
    THEN <<"audiometria", "espirometria">>
    ELSE IF ShouldIncludeAudiometryProtocol(report_type)
         THEN <<"audiometria">>
         ELSE IF ShouldIncludeSpirometryProtocol(report_type)
              THEN <<"espirometria">>
              ELSE <<>>

AfterProtocol(n) ==
    IF n >= Len(ProtocolsFor(report_data.type)) THEN "assemble" ELSE "protocol"

\* line 230
Save ==
    /\ pc = "save"
    /\ base_doc' = SaveCanvas(canvas)
    /\ pc' = AfterProtocol(0)
    /\ UNCHANGED <<report_data, fs, canvas, current_page, attachment_sections, di,
                   temp_pdf_path, temps, protocol_pdf, proto_docs, out, result, events>>

\* lines 240-246: one call of _render_*_protocol_pdf
RenderProtocol ==
    /\ pc = "protocol"
    /\ LET name == ProtocolsFor(report_data.type)[Len(protocol_pdf) + 1]
       IN /\ protocol_pdf' = Append(protocol_pdf, name)
          /\ proto_docs' = Append(proto_docs,
                                  RenderProtocolPdf(name, report_data.images, Watermark))
          /\ temps' = AfterWatermark \cup {name}
    /\ pc' = AfterProtocol(Len(protocol_pdf) + 1)
    /\ report_data' = ReportDataAfter(report_data)
    /\ UNCHANGED <<fs, canvas, current_page, attachment_sections, di,
                   temp_pdf_path, base_doc, out, result, events>>

\* trailing = [path for path in protocol_pdf if path], kept when on disk
TrailingDocs ==
    LET idx == SelectSeq([k \in 1..Len(protocol_pdf) |-> k],
                         LAMBDA k : protocol_pdf[k] \in temps)
    IN [j \in 1..Len(idx) |-> proto_docs[idx[j]]]

MergeNeeded == attachment_sections # <<>> \/ protocol_pdf # <<>>

Merged ==
    [state |-> "merged",
     doc |-> AppendSupportingPdfs(base_doc, attachment_sections, TrailingDocs, fs)]

ProtocolNames == {protocol_pdf[k] : k \in 1..Len(protocol_pdf)}

\* lines 248-255 and 264: _append_supporting_pdfs ran to its end
Merge ==
    /\ pc = "assemble"
    /\ MergeNeeded
    /\ out' = Merged
    /\ temps' = (temps \ {"base"}) \ ProtocolNames
    /\ temp_pdf_path' = FALSE
    /\ result' = "True"
    /\ pc' = "finally"
    /\ UNCHANGED <<report_data, fs, canvas, current_page, attachment_sections, di,
                   base_doc, protocol_pdf, proto_docs, events>>

\* lines 260-264: nothing to merge, the base document is moved
MoveBase ==
    /\ pc = "assemble"
    /\ ~MergeNeeded
    /\ out' = [state |-> "base", doc |-> base_doc]
    /\ temps' = temps \ {"base"}
    /\ temp_pdf_path' = FALSE
    /\ result' = "True"
    /\ pc' = "finally"
    /\ UNCHANGED <<report_data, fs, canvas, current_page, attachment_sections, di,
                   base_doc, protocol_pdf, proto_docs, events>>

\* lines 268-270
Finally ==
    /\ pc = "finally"
    /\ temps' = IF temp_pdf_path THEN temps \ {"base"} ELSE temps
    /\ pc' = "done"
    /\ UNCHANGED <<report_data, fs, canvas, current_page, attachment_sections, di,
                   temp_pdf_path, base_doc, protocol_pdf, proto_docs, out, result,
                   events>>

(***************************************************************************)
(* The environment: an attachment is deleted while the report is generated *)
(***************************************************************************)
Referenced(p) ==
    \/ InSeq(p, report_data.calibration_files)
    \/ InSeq(p, report_data.audiogram_files)
    \/ InSeq(p, report_data.spirometry_files)
    \/ InSeq(p, report_data.attendance_files)

FileVanishes ==
    /\ pc \notin {"finally", "done"}
    /\ VolatilePath \in fs
    /\ Referenced(VolatilePath)
    /\ fs' = fs \ {VolatilePath}
    /\ UNCHANGED <<report_data, pc, canvas, current_page, attachment_sections, di,
                   temp_pdf_path, temps, base_doc, protocol_pdf, proto_docs, out,
                   result, events>>

Steps ==
    \/ Start
    \/ TableOfContents
    \/ CompanyProfile
    \/ ResultsTable
    \/ ResultsStatistics
    \/ Conclusion
    \/ Recommendations
    \/ TechnicalTeam
    \/ CalibrationCertificates
    \/ CalibrationCover
    \/ AudiogramCover
    \/ SpirometryCover
    \/ AttendanceCover
    \/ Save
    \/ RenderProtocol
    \/ Merge
    \/ MoveBase
    \/ Finally
    \/ FileVanishes

Next == Steps

Spec == Init /\ [][Next]_vars

(***************************************************************************)
(* generate when calls fail: the file system, the canvas, the image and    *)
(* PDF libraries may raise at any call.  An exception raised inside the    *)
(* outer try ends in the except clause of line 265 (return False) and then *)
(* in the finally clause.                                                  *)
(***************************************************************************)
Raised(event) ==
    /\ result' = "False"
    /\ events' = events \cup {event}
    /\ pc' = "finally"

\* lines 59-75 raise: before the temporary file exists (created = FALSE) or
\* after mkstemp returned
StartFails(created) ==
    /\ pc = "start"
    /\ temp_pdf_path' = created
    /\ temps' = IF created THEN temps \cup {"base"} ELSE temps
    /\ Raised("render")
    /\ UNCHANGED <<report_data, fs, canvas, current_page, attachment_sections, di,
                   base_doc, protocol_pdf, proto_docs, out>>

RenderSteps ==
    {"toc", "company", "table", "stats", "conclusion", "recommendations", "team",
     "certificates", "cover_calibration", "cover_audiograms", "cover_spirometry",
     "cover_attendance", "save"}

\* a section renderer, a resolver or pdf_canvas.save raises; left is what the
\* failed call leaves behind: nothing, or the chart raster (savefig raised
\* after the temporary png was created, lines 2593-2596)
RenderFails(left) ==
    /\ pc \in RenderSteps
    /\ left = "chart" => pc = "stats"
    /\ temps' = IF left = "nothing" THEN temps ELSE temps \cup {left}
    /\ Raised("render")
    /\ UNCHANGED <<report_data, fs, canvas, current_page, attachment_sections, di,
                   temp_pdf_path, base_doc, protocol_pdf, proto_docs, out>>

\* _render_*_protocol_pdf raises: before its temporary file exists or after
\* (lines 1570-1582: nothing removes temp_path when drawing or save raises)
ProtocolFails(created) ==
    /\ pc = "protocol"
    /\ LET name == ProtocolsFor(report_data.type)[Len(protocol_pdf) + 1]
       IN temps' = IF created THEN temps \cup {name} ELSE temps
    /\ Raised("protocol")
    /\ UNCHANGED <<report_data, fs, canvas, current_page, attachment_sections, di,
                   temp_pdf_path, base_doc, protocol_pdf, proto_docs, out>>

\* the protocol documents os.remove has deleted when the removal of the
\* k-th trailing path raises (lines 2305-2307)
RemovedBefore(k) == {protocol_pdf[j] : j \in 1..(k - 1)}

\* _append_supporting_pdfs raises: reading the base document (line 2257),
\* writing the output (lines 2299-2300: a truncated file is left), removing
\* the base document (line 2303) or removing the k-th protocol document
MergeFails(point, k) ==
    /\ pc = "assemble"
    /\ MergeNeeded
    /\ CASE point = "read" ->
                /\ k = 0
                /\ UNCHANGED <<out, temps>>
         [] point = "write" ->
                /\ k = 0
                /\ out' = [state |-> "partial", doc |-> <<>>]
                /\ UNCHANGED temps
         [] point = "remove_base" ->
                /\ k = 0
                /\ out' = Merged
                /\ UNCHANGED temps
         [] point = "remove_trailing" ->
                /\ k \in 1..Len(protocol_pdf)
                /\ out' = Merged
                /\ temps' = (temps \ {"base"}) \ RemovedBefore(k)
    /\ events' = events \cup {"merge"}
    /\ pc' = "fallback"
    /\ UNCHANGED <<report_data, fs, canvas, current_page, attachment_sections, di,
                   temp_pdf_path, base_doc, protocol_pdf, proto_docs, result>>

\* lines 256-259: the except clause of the merge.  shutil.move raises when
\* the base document is gone (moved = FALSE is then the only outcome) or
\* when moving fails
Fallback(moved) ==
    /\ pc = "fallback"
    /\ moved => "base" \in temps
    /\ IF moved
       THEN /\ out' = [state |-> "base", doc |-> base_doc]
            /\ temps' = temps \ {"base"}
            /\ temp_pdf_path' = FALSE
            /\ result' = "True"
            /\ pc' = "finally"
            /\ UNCHANGED events
       ELSE /\ Raised(IF "base" \in temps THEN "move" ELSE "move_missing")
            /\ UNCHANGED <<out, temps, temp_pdf_path>>
    /\ UNCHANGED <<report_data, fs, canvas, current_page, attachment_sections, di,
                   base_doc, protocol_pdf, proto_docs>>

\* lines 260-262: shutil.move raises when nothing had to be merged
MoveFails ==
    /\ pc = "assemble"
    /\ ~MergeNeeded
    /\ Raised("move")
    /\ UNCHANGED <<report_data, fs, canvas, current_page, attachment_sections, di,
                   temp_pdf_path, temps, base_doc, protocol_pdf, proto_docs, out>>

\* line 270: os.remove raises inside the finally clause; the exception leaves
\* generate
FinallyFails ==
    /\ pc = "finally"
    /\ temp_pdf_path
    /\ "base" \in temps
    /\ result' = "raised"
    /\ events' = events \cup {"remove"}
    /\ pc' = "done"
    /\ UNCHANGED <<report_data, fs, canvas, current_page, attachment_sections, di,
                   temp_pdf_path, temps, base_doc, protocol_pdf, proto_docs, out>>

FaultReports ==
    { r \in Reports({Type.audiometria, Type.combinado, Type.otro},
                  {"none", "ok", "fail_open", "fail_draw"}) :
        /\ Len(r.evaluated) <= 2
        /\ r.recommendations = Missing
        /\ Len(r.calibration_files) <= 3
        /\ r.spirometry_files = <<>>
        /\ r.attendance_files = <<>> }

InitF == InitWith(FaultReports)

NextF ==
    \/ Steps
    \/ \E created \in BOOLEAN : StartFails(created)
    \/ \E left \in {"nothing", "chart"} : RenderFails(left)
    \/ \E created \in BOOLEAN : ProtocolFails(created)
    \/ \E point \in {"read", "write", "remove_base", "remove_trailing"}, k \in 0..2 :
           MergeFails(point, k)
    \/ \E moved \in BOOLEAN : Fallback(moved)
    \/ MoveFails
    \/ FinallyFails

SpecFault == InitF /\ [][NextF]_vars

(***************************************************************************)
(* The helpers called on their own.  report_data holds the arguments of    *)
(* one call, result what the call returned; nothing else takes part.       *)
(***************************************************************************)
\* the labels tried
Label ==
    [normal |-> <<"N", "o", "r", "m", "a", "l">>,
       caidaBilateral |-> <<"C", "A", "I'", "D", "A", " ", "B", "I", "L",
            "A", "T", "E", "R", "A", "L">>,
       caidaUnilateral |-> <<"C", "a", "i'", "d", "a", " ", "u", "n", "i",
            "l", "a", "t", "e", "r", "a", "l">>,
       caida |-> <<"C", "a", "i'", "d", "a">>,
       obstruccionLeve |-> <<"O", "b", "s", "t", "r", "u", "c", "c", "i",
            "o'", "n", " ", "l", "e", "v", "e">>,
       obstruccionARestriccion |-> <<"O", "b", "s", "t", "r", "u", "c",
            "c", "i", "o'", "n", " ", "a", " ", "r", "e", "s", "t", "r",
            "i", "c", "c", "i", "o'", "n">>,
       restriccionModerada |-> <<"R", "e", "s", "t", "r", "i", "c", "c",
            "i", "o'", "n", " ", "m", "o", "d", "e", "r", "a", "d", "a">>,
       obstruccionModerada |-> <<"O", "B", "S", "T", "R", "U", "C", "C",
            "I", "O'", "N", " ", "M", "O", "D", "E", "R", "A", "D", "A">>,
       restriccionGrave |-> <<"R", "e", "s", "t", "r", "i", "c", "c", "i",
            "o'", "n", " ", "g", "r", "a", "v", "e">>,
       restriccionLeve |-> <<"R", "e", "s", "t", "r", "i", "c", "c", "i",
            "o'", "n", " ", "l", "e", "v", "e">>,
       obstruccionARestriccionLeve |-> <<"O", "b", "s", "t", "r", "u", "c",
            "c", "i", "o'", "n", " ", "a", " ", "r", "e", "s", "t", "r",
            "i", "c", "c", "i", "o'", "n", " ", "l", "e", "v", "e">>,
       anormal |-> <<"A", "n", "o", "r", "m", "a", "l">>,
       sinDatos |-> <<"S", "i", "n", " ", "d", "a", "t", "o", "s">> ]

Labels == {<<>>} \cup {Label[name] : name \in DOMAIN Label}

\* result_code: absent, garbage, or a key of one of the schemes
ResultCodes ==
    { "", "garbage", "normal", "caida_bilateral", "espiro_normal", "obstruccion_leve",
      "restriccion_grave" }

ResultEntry(result_code, result_label, result_text) ==
    [result_code |-> result_code, result_label |-> result_label,
     result |-> result_text, status |-> <<>>]

DatasetKeyChoices == {"audiometria", "espirometria"}

\* the texts handed to _wrap_text: up to MaxTokens tokens
MaxTokens == 4
WrapTokens == {Space, Newline, Word("a", 3000), Word("b", 4000), Word("wide", 9000)}

WrapTexts ==
    { text \in UNION {[1..n -> WrapTokens] : n \in 0..MaxTokens} :
        \A i \in 1..(Len(text) - 1) : IsSpace(text[i]) \/ IsSpace(text[i + 1]) }

WrapWidths == {5000, 8000, 12000}

\* the entries of a results table: up to MaxEntries of them
MaxEntries == 3
TableEntries ==
    { ResultEntry("", Label.obstruccionLeve, <<>>),
      ResultEntry("caida_bilateral", Label.normal, <<>>),
      ResultEntry("espiro_normal", <<>>, Label.caidaUnilateral),
      ResultEntry("garbage", <<>>, <<>>) }

\* the texts handed to _draw_recommendations_page: up to MaxBulletTokens
\* tokens
MaxBulletTokens == 4
BulletTokens ==
    {Space, Newline, Word("a", 3000), Word("U+2022", 385), Word("-", 366),
     Word("U+F0B6", 500)}

IsSymbol(t) == t.s \in BulletSymbols

BulletTexts ==
    { text \in UNION {[1..n -> BulletTokens] : n \in 0..MaxBulletTokens} :
        \A i \in 1..(Len(text) - 1) :
            IsSpace(text[i]) \/ IsSpace(text[i + 1]) \/ IsSymbol(text[i])
                \/ IsSymbol(text[i + 1]) }

Call(fn, text, max_width, entry, dataset_key, entries) ==
    [fn |-> fn, text |-> text, max_width |-> max_width, entry |-> entry,
     dataset_key |-> dataset_key, entries |-> entries]

HelperCalls ==
    { Call("_wrap_text", text, max_width, ResultEntry("", <<>>, <<>>), "", <<>>) :
        text \in WrapTexts, max_width \in WrapWidths }
    \cup
    { Call("_resolve_result_code", <<>>, 0, ResultEntry(code, label, <<>>), d, <<>>) :
        code \in ResultCodes, label \in Labels, d \in DatasetKeyChoices }
    \cup
    { Call("_resolve_result_code", <<>>, 0, ResultEntry(code, <<>>, Label.caidaBilateral),
           d, <<>>) :
        code \in ResultCodes, d \in DatasetKeyChoices }
    \cup
    { Call("recommendations", text, 0, ResultEntry("", <<>>, <<>>), "", <<>>) :
        text \in BulletTexts }
    \cup
    { Call("results", <<>>, 0, ResultEntry("", <<>>, <<>>), d, entries) :
        d \in DatasetKeyChoices,
        entries \in UNION {[1..n -> TableEntries] : n \in 0..MaxEntries} }

InitH ==
    /\ report_data \in HelperCalls
    /\ pc = "call"
    /\ result = "pending"
    /\ fs = {}
    /\ canvas = NewCanvas
    /\ current_page = 0
    /\ attachment_sections = <<>>
    /\ di = 1
    /\ temp_pdf_path = FALSE
    /\ temps = {}
    /\ base_doc = <<>>
    /\ protocol_pdf = <<>>
    /\ proto_docs = <<>>
    /\ out = [state |-> "absent", doc |-> <<>>]
    /\ events = {}

Returns(fn, value) ==
    /\ pc = "call"
    /\ report_data.fn = fn
    /\ result' = value
    /\ pc' = "returned"
    /\ UNCHANGED <<report_data, fs, canvas, current_page, attachment_sections, di,
                   temp_pdf_path, temps, base_doc, protocol_pdf, proto_docs, out, events>>

CallWrapText ==
    Returns("_wrap_text", WrapText(report_data.text, report_data.max_width))

CallResolveResultCode ==
    Returns("_resolve_result_code",
            ResolveResultCode(report_data.entry, report_data.dataset_key))

\* the styles of the rows _draw_results_table_row draws and the statistics
\* _draw_results_statistics_page computes for the same entries
CallResults ==
    Returns("results",
            [styles |-> [i \in 1..Len(report_data.entries) |->
                            ResultStyleForEntry(report_data.entries[i],
                                                report_data.dataset_key)],
             stats |-> ComputeResultsStats(report_data.dataset_key, report_data.entries)])

\* the items _draw_recommendations_page splits the text into and the pages
\* it draws for them on a canvas of its own
CallRecommendations ==
    Returns("recommendations",
            [items |-> SplitIntoBulletItems(report_data.text),
             pages |-> BasePagesOf(DrawRecommendationsPage(NewCanvas, report_data.text,
                                                           2, "none").c)])

NextH ==
    \/ CallWrapText
    \/ CallRecommendations
    \/ CallResolveResultCode
    \/ CallResults

SpecHelpers == InitH /\ [][NextH]_vars

(***************************************************************************)
(* Vocabulary of the properties                                            *)
(***************************************************************************)
\* the physical pages of the base stream, the open one included
BasePages == canvas.closed \o <<canvas.cur>>

\* the pages of the final document by origin
IsAttachmentPage(page) == page.sec = "attachment"
IsProtocolPage(page) == page.sec \in {"proto_audiometria", "proto_espirometria"}
IsBasePage(page) == ~IsAttachmentPage(page) /\ ~IsProtocolPage(page)

BasePagesBefore(doc, n) == Cardinality({m \in 1..(n - 1) : IsBasePage(doc[m])})

Returned == pc = "done" /\ result \in {"True", "False"}
MergedOutput == pc = "done" /\ out.state = "merged"

\* the pages of file p a reader yields before the file ends or reading raises
Yielded(p) ==
    {i \in 1..Len(FileDoc(p).pages) : FileDoc(p).failAt = 0 \/ i < FileDoc(p).failAt}

\* <<section, position of the file in the section's list, page>> of every
\* page the merge has to copy: files on disk, pages read, pages not blank
ExpectedOfFile(j, k) ==
    LET p == attachment_sections[j].files[k]
    IN IF p \notin fs
       THEN {}
       ELSE {<<j, k, i>> : i \in {i \in Yielded(p) : ~IsBlankPdfPage(FileDoc(p).pages[i])}}

ExpectedCopies ==
    UNION {UNION {ExpectedOfFile(j, k) : k \in 1..Len(attachment_sections[j].files)} :
           j \in 1..Len(attachment_sections)}

FileIndex(files, p) == CHOOSE k \in 1..Len(files) : files[k] = p

CopyKey(page) ==
    <<page.sect, FileIndex(attachment_sections[page.sect].files, page.path), page.idx>>

LexLess(a, b) ==
    \/ a[1] < b[1]
    \/ a[1] = b[1] /\ a[2] < b[2]
    \/ a[1] = b[1] /\ a[2] = b[2] /\ a[3] < b[3]

(***************************************************************************)
(* C1: in the merged document the non-blank pages of the existing files of *)
(* every recorded section stand right after base page cover_end and before *)
(* base page cover_end + 1, files in their listed order, every section     *)
(* spliced exactly once and in the recording order.                        *)
(***************************************************************************)
C1_SpliceAfterCoverEnd ==
    MergedOutput =>
        LET doc == out.doc
            copies == {n \in 1..Len(doc) : IsAttachmentPage(doc[n])}
        IN /\ \A n \in copies :
                  BasePagesBefore(doc, n) = attachment_sections[doc[n].sect].cover_end
           /\ \A n, m \in copies :
                  n < m => LexLess(CopyKey(doc[n]), CopyKey(doc[m]))
           /\ {CopyKey(doc[n]) : n \in copies} = ExpectedCopies
           /\ SelectSeq(doc, IsBasePage) = base_doc

C1_Witness ==
    /\ MergedOutput
    /\ Len(attachment_sections) = 4
    /\ attachment_sections[1].cover_end > attachment_sections[1].cover_start
    /\ \E n \in 1..Len(out.doc) : IsAttachmentPage(out.doc[n]) /\ out.doc[n].sect = 4
    /\ \E n \in 1..Len(out.doc) : IsAttachmentPage(out.doc[n]) /\ out.doc[n].sect = 2

(***************************************************************************)
(* C2: at every moment of generate, cover_start and cover_end of every     *)
(* recorded section are the physical positions, in the base stream, of the *)
(* first and of the last page drawn for that cover, continuation pages     *)
(* included.                                                               *)
(***************************************************************************)
CoverNames == <<"att_calibration", "att_audiograms", "att_spirometry", "att_attendance">>

\* the covers drawn so far, in bucket order
CoversDrawn ==
    SelectSeq(CoverNames,
              LAMBDA name : \E n \in 1..Len(BasePages) : BasePages[n].sec = name)

CoverPositions(name) == {n \in 1..Len(BasePages) : BasePages[n].sec = name}

C2_CoverBoundsArePhysical ==
    /\ Len(attachment_sections) = Len(CoversDrawn)
    /\ \A j \in 1..Len(attachment_sections) :
           LET at == CoverPositions(CoversDrawn[j])
           IN /\ attachment_sections[j].cover_start \in at
              /\ attachment_sections[j].cover_end \in at
              /\ \A n \in at : /\ attachment_sections[j].cover_start <= n
                               /\ n <= attachment_sections[j].cover_end

C2_Witness ==
    /\ Len(attachment_sections) = 3
    /\ attachment_sections[1].cover_end = attachment_sections[1].cover_start + 1
    /\ attachment_sections[3].cover_end = attachment_sections[3].cover_start + 2
    /\ report_data.conclusion = Missing
    /\ report_data.spirometry_files = <<>>

(***************************************************************************)
(* C3: in the merged document every protocol page comes after every base   *)
(* page and after every attachment page, and the audiometry protocol pages *)
(* come before the spirometry protocol pages.                              *)
(***************************************************************************)
C3_ProtocolsLast ==
    MergedOutput =>
        LET doc == out.doc
        IN /\ \A n, m \in 1..Len(doc) :
                  IsProtocolPage(doc[n]) /\ ~IsProtocolPage(doc[m]) => m < n
           /\ \A n, m \in 1..Len(doc) :
                  /\ doc[n].sec = "proto_audiometria"
                  /\ doc[m].sec = "proto_espirometria"
                  => n < m
           /\ \A k \in 1..Len(proto_docs) :
                  SelectSeq(doc, LAMBDA page : page.sec = proto_docs[k][1].sec)
                      = [i \in 1..Len(proto_docs[k]) |->
                             [proto_docs[k][i] EXCEPT !.idx = i]]

C3_Witness ==
    /\ MergedOutput
    /\ report_data.type = Type.combinado
    /\ Len(attachment_sections) = 4
    /\ \E n \in 1..Len(out.doc) : out.doc[n].sec = "proto_audiometria"
    /\ \E n \in 1..Len(out.doc) : out.doc[n].sec = "proto_espirometria"

(***************************************************************************)
(* C4: a page read from an attachment or from a protocol document is left  *)
(* out of the merged document iff its text is empty after trimming and its *)
(* content stream is absent or empty once space, tab, CR and LF are        *)
(* removed; a page on which the check raises is copied.                    *)
(***************************************************************************)
TrimmedTextEmpty(page) == \A k \in 1..Len(page.text) : page.text[k] \in StrWhitespace

StreamAbsentOrEmpty(page) ==
    \/ page.contents = <<-1>>
    \/ \A k \in 1..Len(page.contents) : page.contents[k] \in {32, 9, 13, 10}

CheckRaises(page) ==
    page.text = <<-1>> \/ (TrimmedTextEmpty(page) /\ page.contents = <<-2>>)

LeftOut(page) ==
    ~CheckRaises(page) /\ TrimmedTextEmpty(page) /\ StreamAbsentOrEmpty(page)

C4_BlankPagesOnly ==
    MergedOutput =>
        LET doc == out.doc
            Copied(j, p, i) ==
                \E n \in 1..Len(doc) :
                    /\ IsAttachmentPage(doc[n])
                    /\ doc[n].sect = j /\ doc[n].path = p /\ doc[n].idx = i
        IN /\ \A j \in 1..Len(attachment_sections) :
                  \A k \in 1..Len(attachment_sections[j].files) :
                      LET p == attachment_sections[j].files[k]
                      IN p \in fs =>
                             \A i \in Yielded(p) :
                                 Copied(j, p, i) <=> ~LeftOut(FileDoc(p).pages[i])
           /\ \A k \in 1..Len(proto_docs) :
                  \A i \in 1..Len(proto_docs[k]) :
                      (\E n \in 1..Len(doc) :
                           doc[n].sec = proto_docs[k][i].sec /\ doc[n].idx = i)
                      <=> ~LeftOut(proto_docs[k][i])

C4_Witness ==
    /\ MergedOutput
    /\ \E n \in 1..Len(out.doc) :
           out.doc[n].path = MixedPath /\ out.doc[n].contents = <<113, 32, 81>>
    /\ \E n \in 1..Len(out.doc) :
           out.doc[n].path = MixedPath /\ out.doc[n].text = <<-1>>
    /\ \E n \in 1..Len(out.doc) : IsProtocolPage(out.doc[n])

(***************************************************************************)
(* C5: whenever _append_supporting_pdfs raised, and the move of the        *)
(* fallback was not itself made to fail, generate returns True and the     *)
(* un-merged base document is what output_path holds.                      *)
(***************************************************************************)
C5_MergeFallsBackToBase ==
    (pc = "done" /\ "merge" \in events /\ "move" \notin events /\ "remove" \notin events)
        => result = "True" /\ out = [state |-> "base", doc |-> base_doc]

(***************************************************************************)
(* C6: generate never raises to its caller: it ends by returning a         *)
(* boolean, False whenever an exception escaped rendering or assembly.     *)
(***************************************************************************)
C6_NeverRaises ==
    pc = "done" =>
        /\ result \in {"True", "False"}
        /\ events \cap {"render", "protocol", "move", "move_missing"} # {}
               => result = "False"

(***************************************************************************)
(* C7: when generate returns, on every exit path, no temporary file the    *)
(* call created still exists: base document, protocol documents, watermark *)
(* raster, chart raster.                                                   *)
(***************************************************************************)
C7_NoTemporaryFileLeft == Returned => temps = {}

(***************************************************************************)
(* C8: after generate returns, either it returned True and output_path     *)
(* holds a complete document, or it returned False and nothing was written *)
(* at output_path.                                                         *)
(***************************************************************************)
C8_AllOrNothing ==
    Returned =>
        \/ result = "True" /\ out.state \in {"merged", "base"}
        \/ result = "False" /\ out.state = "absent"

(***************************************************************************)
(* C9                                                                      *)
(***************************************************************************)
\* the files the pages of a cover list, in page order
RECURSIVE ListedOn(_, _)
ListedOn(name, n) ==
    IF n > Len(BasePages)
    THEN <<>>
    ELSE (IF BasePages[n].sec = name THEN BasePages[n].listed ELSE <<>>)
         \o ListedOn(name, n + 1)

\* the paths of the copied pages of section j
SplicedFiles(j) ==
    {out.doc[n].path : n \in {n \in 1..Len(out.doc) :
                                 IsAttachmentPage(out.doc[n]) /\ out.doc[n].sect = j}}

TwoExistingOneMissing ==
    /\ pc = "done"
    /\ report_data.calibration_files = <<TwoPagePath, MissingPath, MixedPath>>

\* C9 as stated: with a calibration bucket of two existing files and one
\* missing path, the calibration cover lists all three names, only the pages
\* of the two existing files are spliced, and generate returns True.
C9_CoverListsAllThree ==
    TwoExistingOneMissing =>
        /\ ListedOn("att_calibration", 1) = <<TwoPagePath, MissingPath, MixedPath>>
        /\ SplicedFiles(1) = {TwoPagePath, MixedPath}
        /\ result = "True"

\* the declared calibration paths: calibration_files, then the attachments
\* of the calibration_certificates entries
DeclaredCalibration ==
    report_data.calibration_files
        \o [k \in 1..Len(report_data.calibration_certificates) |->
                report_data.calibration_certificates[k].attachment]

\* a file of the section is readable when some page of it is to be copied
HasCopies(p) == \E i \in Yielded(p) : ~LeftOut(FileDoc(p).pages[i])

\* C9 (amended): a calibration path that does not exist when the report is
\* resolved is neither listed on the calibration cover nor spliced: with two
\* existing files and one missing path the cover lists the two existing
\* names only, the pages of those two files are spliced, and generate returns
\* True.  A listed file that is gone when the documents are merged is
\* skipped, and every other file of every section is still spliced.
C9_MissingFilesAreSkipped ==
    pc = "done" =>
        /\ result = "True"
        /\ TwoExistingOneMissing =>
               /\ ListedOn("att_calibration", 1) = <<TwoPagePath, MixedPath>>
               /\ SplicedFiles(1) = {TwoPagePath, MixedPath}
        /\ \A k \in 1..Len(DeclaredCalibration) :
               InSeq(DeclaredCalibration[k], ListedOn("att_calibration", 1))
                   <=> DeclaredCalibration[k] \in AllPaths
        /\ \A j \in 1..Len(attachment_sections) :
               \A k \in 1..Len(attachment_sections[j].files) :
                   LET p == attachment_sections[j].files[k]
                   IN p \in SplicedFiles(j) <=> (p \in fs /\ HasCopies(p))

C9_Witness ==
    /\ TwoExistingOneMissing
    /\ Len(attachment_sections) >= 3
    /\ VolatilePath \notin fs
    /\ InSeq(VolatilePath, ListedOn("att_audiograms", 1))
    /\ TruncatedPath \in SplicedFiles(2)
    /\ SplicedFiles(3) # {}

(***************************************************************************)
(* C10: the pages of the base stream follow the fixed section order, each  *)
(* results table immediately followed by the statistics page of the same   *)
(* dataset, whatever sections are present or skipped.                      *)
(***************************************************************************)
SectionOrder ==
    <<"cover", "toc", "company", "table_audiometria", "stats_audiometria",
      "table_espirometria", "stats_espirometria", "conclusion", "recommendations",
      "team", "certs", "att_calibration", "att_audiograms", "att_spirometry",
      "att_attendance">>

Rank(sec) == CHOOSE r \in 1..Len(SectionOrder) : SectionOrder[r] = sec

\* the pages drawn so far (the page opened by the first call is still empty)
DrawnPages == SelectSeq(BasePages, LAMBDA page : page.ops # <<>>)

C10_FixedSectionOrder ==
    /\ \A n \in 1..Len(DrawnPages) : InSeq(DrawnPages[n].sec, SectionOrder)
    /\ \A n, m \in 1..Len(DrawnPages) :
           n < m => Rank(DrawnPages[n].sec) <= Rank(DrawnPages[m].sec)
    /\ Len(DrawnPages) >= 1 => DrawnPages[1].sec = "cover"
    /\ Len(DrawnPages) >= 2 => DrawnPages[2].sec = "toc"
    /\ \A d \in {"audiometria", "espirometria"} :
           \A n \in 1..Len(base_doc) :
               base_doc[n].sec = "table_" \o d =>
                   /\ n < Len(base_doc)
                   /\ base_doc[n + 1].sec \in {"table_" \o d, "stats_" \o d}

C10_Witness ==
    /\ pc = "done"
    /\ \A r \in 1..Len(SectionOrder) :
           \E n \in 1..Len(base_doc) : base_doc[n].sec = SectionOrder[r]
    /\ Cardinality({n \in 1..Len(base_doc) : base_doc[n].sec = "table_audiometria"}) = 2

(***************************************************************************)
(* C11: a conclusion (likewise a recommendations) text that is missing,    *)
(* empty or whitespace-only emits no page: the step of generate that       *)
(* handles it leaves the canvas and the running page number as they were,  *)
(* and no page of that section is ever part of the canvas, of the base     *)
(* stream or of the final document, whose page count is therefore the one  *)
(* of the record without the field.                                        *)
(***************************************************************************)
\* a text field that is missing, empty or whitespace-only
IsBlankField(field) == StrStrip(TextOrEmpty(field)) = <<>>

SectionPages(doc, sec) == Cardinality({n \in 1..Len(doc) : doc[n].sec = sec})

OptionalSections == {"conclusion", "recommendations"}

C11_SkippedSectionTakesNoPage ==
    /\ [](\A sec \in OptionalSections :
              IsBlankField(report_data[sec]) =>
                  /\ SectionPages(BasePages, sec) = 0
                  /\ SectionPages(base_doc, sec) = 0
                  /\ SectionPages(out.doc, sec) = 0)
    /\ [][\A sec \in OptionalSections :
              pc = sec /\ IsBlankField(report_data[sec]) =>
                  canvas' = canvas /\ current_page' = current_page]_vars

C11_Witness ==
    /\ MergedOutput
    /\ report_data.conclusion = Given(WhitespaceText)
    /\ report_data.recommendations = Given(<<>>)
    /\ Len(out.doc) > Len(base_doc)
    /\ current_page = Len(base_doc)

(***************************************************************************)
(* C12: every physical page a renderer emits, in the base stream and in    *)
(* each protocol document, carries exactly one footer draw, made before    *)
(* the page is closed or the canvas saved, and the number it prints is the *)
(* 1-based position of the page in the stream being rendered; whenever a   *)
(* renderer has returned, the page number it returned is the number of     *)
(* physical pages emitted so far.                                          *)
(***************************************************************************)
\* every page of doc carries one footer, printing its position
FootersNumberPages(doc) == \A n \in 1..Len(doc) : doc[n].footers = <<n>>

\* a renderer of the base stream has returned
RendererReturned == pc \notin {"start", "toc"}

C12_OneFooterPerPage ==
    /\ FootersNumberPages(canvas.closed)
    /\ pc # "start" => canvas.cur.footers = <<PhysicalPages(canvas)>>
    /\ RendererReturned => current_page = PhysicalPages(canvas)
    /\ FootersNumberPages(base_doc)
    /\ \A k \in 1..Len(proto_docs) : FootersNumberPages(proto_docs[k])

C12_Witness ==
    /\ MergedOutput
    /\ current_page = Len(base_doc)
    /\ SectionPages(base_doc, "company") = 2
    /\ SectionPages(base_doc, "table_audiometria") >= 2
    /\ SectionPages(base_doc, "conclusion") = 2
    /\ SectionPages(base_doc, "att_attendance") >= 2
    /\ Len(proto_docs) = 2
    /\ \A k \in 1..2 : Len(proto_docs[k]) = 3

(***************************************************************************)
(* C13: the page numbers printed in the footers of the pages the engine    *)
(* rendered (base pages and trailing protocol pages), read in the order of *)
(* the final document, are strictly increasing: the numbering neither      *)
(* restarts nor repeats, the boundary between the base stream and the      *)
(* appended protocol documents included.                                   *)
(***************************************************************************)
IsEnginePage(page) == ~IsAttachmentPage(page) /\ page.footers # <<>>

C13_FooterNumbersIncrease ==
    \A n, m \in 1..Len(out.doc) :
        (n < m /\ IsEnginePage(out.doc[n]) /\ IsEnginePage(out.doc[m]))
            => out.doc[n].footers[1] < out.doc[m].footers[1]

(***************************************************************************)
(* C14: when a watermark image is supplied, every physical page a renderer *)
(* produces (first page of a section and every continuation page, in the   *)
(* base stream and in the protocol documents) has the watermark applied    *)
(* exactly once and the institutional header drawn, both before any        *)
(* section content of the page.                                            *)
(***************************************************************************)
Occurrences(ops, op) == Cardinality({i \in 1..Len(ops) : ops[i] = op})

\* watermark first, institutional header second, each of them once
WatermarkThenHeader(page) ==
    /\ Len(page.ops) >= 2
    /\ page.ops[1] = "wm"
    /\ page.ops[2] = "hdr"
    /\ Occurrences(page.ops, "wm") = 1
    /\ Occurrences(page.ops, "hdr") = 1

AllWatermarked(doc) ==
    \A n \in 1..Len(doc) :
        (~IsAttachmentPage(doc[n]) /\ doc[n].ops # <<>>) => WatermarkThenHeader(doc[n])

HelperReturned(fn) == pc = "returned" /\ report_data.fn = fn

SchemeKeys(dataset_key) ==
    {RESULT_SCHEMES[dataset_key][i].key : i \in 1..Len(RESULT_SCHEMES[dataset_key])}

RowsHighlighted(styles, option) ==
    Cardinality({i \in 1..Len(styles) :
                    styles[i].background = option.bg /\ styles[i].text = option.fg})

ListedRules(dataset_key) ==
    IF dataset_key = "espirometria"
    THEN EspirometriaMapping
    ELSE << Rule("caida_bilateral", {Tok.caida, Tok.bilateral}),
            Rule("caida_unilateral", {Tok.caida, Tok.uni}) >>

RuleMatches(dataset_key, rule, normalized) ==
    IF dataset_key = "espirometria"
    THEN \E token \in rule.tokens : Contains(normalized, token)
    ELSE \A token \in rule.tokens : Contains(normalized, token)

NormalCode(dataset_key) == IF dataset_key = "espirometria" THEN "espiro_normal" ELSE "normal"

ExpectedCode(entry, dataset_key) ==
    LET rules == ListedRules(dataset_key)
        normalized == NormalizeText(LabelSource(entry))
        matching == {k \in 1..Len(rules) : RuleMatches(dataset_key, rules[k], normalized)}
    IN IF entry.result_code \in SchemeKeys(dataset_key) THEN entry.result_code
       ELSE IF matching = {} THEN NormalCode(dataset_key)
       ELSE rules[CHOOSE k \in matching : \A j \in matching : k <= j].key

C17_CodeThenFirstRuleThenNormal ==
    HelperReturned("_resolve_result_code") =>
        result = ExpectedCode(report_data.entry, report_data.dataset_key)

C17_Witness ==
    /\ HelperReturned("_resolve_result_code")
    /\ report_data.dataset_key = "espirometria"
    /\ report_data.entry.result_code = "caida_bilateral"
    /\ report_data.entry.result_label = Label.obstruccionLeve
    /\ result = "restriccion_leve"

(***************************************************************************)
(* C18: for any text and any max_width, no line _wrap_text returns is      *)
(* wider than max_width, texts with a single word wider than max_width     *)
(* included.                                                               *)
(***************************************************************************)
C18_NoLineWiderThanMaxWidth ==
    HelperReturned("_wrap_text") =>
        \A k \in 1..Len(result) : StringWidth(result[k]) <= report_data.max_width

(***************************************************************************)
(* C19: joining the lines _wrap_text returns with single spaces gives the  *)
(* whitespace-normalized text (no word dropped, duplicated or reordered);  *)
(* an empty text gives exactly the one line N/A; the result is never an    *)
(* empty sequence.                                                         *)
(***************************************************************************)
\* " ".join(text.split())
WhitespaceNormalized(text) ==
    StrJoin([k \in 1..Len(StrSplit(text)) |-> <<StrSplit(text)[k]>>])

C19_JoinReproducesText ==
    HelperReturned("_wrap_text") =>
        /\ result # <<>>
        /\ IF report_data.text = <<>>
           THEN result = <<<<NA>>>>
           ELSE StrJoin(result) = WhitespaceNormalized(report_data.text)

\* as amended: a text without a word, empty or not, gives the line N/A, and
\* only a text with a word is reproduced
C19_JoinReproducesWords ==
    HelperReturned("_wrap_text") =>
        /\ result # <<>>
        /\ IF StrSplit(report_data.text) = <<>>
           THEN result = <<<<NA>>>>
           ELSE StrJoin(result) = WhitespaceNormalized(report_data.text)

C19_Witness ==
    /\ HelperReturned("_wrap_text")
    /\ report_data.max_width = 8000
    /\ Len(StrSplit(report_data.text)) = 2
    /\ Newline = report_data.text[2]
    /\ Word("wide", 9000) = report_data.text[3]
    /\ Len(result) = 2

FixedContentOutline(label) ==
    << "DATOS DE LA EMPRESA.",
       "CUADRO DE RESULTADOS DE LAS PRUEBAS DE " \o label \o ".",
       "ESTADISTICA DE RESULTADOS.",
       "CONCLUSIO'N.",
       "RECOMENDACIO'N.",
       "EQUIPO TE'CNICO",
       "CERTIFICADOS DE CALIBRACIO'N.",
       label \o ".",
       "LISTADOS DE ASISTENCIA.",
       "PROTOCOLO DE LAS PRUEBAS DE " \o label \o "." >>

\* the test labels a report type admits: one for each of the three types of
\* the record, any of them for another type
TestLabels(report_type) ==
    CASE report_type = Type.audiometria -> {"AUDIOMETRI'AS"}
      [] report_type = Type.espirometria -> {"ESPIROMETRI'AS"}
      [] report_type = Type.combinado -> {"AUDIOMETRI'AS Y ESPIROMETRI'AS"}
      [] OTHER -> {"AUDIOMETRI'AS", "ESPIROMETRI'AS", "AUDIOMETRI'AS Y ESPIROMETRI'AS"}

TableOfContentsRendered == pc \notin {"start", "toc", "call", "returned"}

C21_OutlineAsSpecified ==
    TableOfContentsRendered =>
        \E label \in TestLabels(report_data.type) :
            ListedOn("toc", 1) = FixedContentOutline(label)

(***************************************************************************)
(* C22                                                                     *)
(***************************************************************************)
\* the sections of a document in page order, each run of pages of one
\* section named once
RECURSIVE SectionsFrom(_, _)
SectionsFrom(doc, n) ==
    IF n > Len(doc)
    THEN <<>>
    ELSE (IF n > 1 /\ doc[n - 1].sec = doc[n].sec THEN <<>> ELSE <<doc[n].sec>>)
         \o SectionsFrom(doc, n + 1)

Sections(doc) == SectionsFrom(doc, 1)

\* what the statistics pages of a document state
StatisticsOf(doc, dataset_key) ==
    SelectSeq(doc, LAMBDA page : page.sec = "stats_" \o dataset_key)

SpirometryReportDone(team_given) ==
    /\ pc = "done"
    /\ report_data = SpirometryReport(team_given, report_data.logo)

QuartersStated(doc) ==
    /\ Len(StatisticsOf(doc, "espirometria")) = 1
    /\ StatisticsOf(doc, "espirometria")[1].listed
           = <<[total |-> 4, analysis |-> <<25, 25, 25, 25>>]>>

\* C22 as stated: the spirometry report with four entries of four different
\* codes, no attachments, empty conclusion and recommendations and no
\* technical team or evaluator profile yields exactly cover, table of
\* contents, company profile, results table, statistics page stating 25%
\* for each of its four groups, and the spirometry protocol; no conclusion,
\* recommendations or technical-team page.
C22_ExactlyTheSections ==
    SpirometryReportDone(FALSE) =>
        /\ result = "True"
        /\ Sections(out.doc) = <<"cover", "toc", "company", "table_espirometria",
                                 "stats_espirometria", "proto_espirometria">>
        /\ QuartersStated(out.doc)

\* C22 (amended): the same report yields exactly cover, table of contents,
\* company profile, results table, statistics page stating 25% for each of
\* its four groups, the page of the default technical team, and the
\* spirometry protocol; no conclusion and no recommendations page.  The
\* technical-team page is left out when technical_team is given as an empty
\* list.
C22_SectionsWithDefaultTeam ==
    /\ SpirometryReportDone(FALSE) =>
           /\ result = "True"
           /\ Sections(out.doc) = <<"cover", "toc", "company", "table_espirometria",
                                    "stats_espirometria", "team", "proto_espirometria">>
           /\ QuartersStated(out.doc)
    /\ SpirometryReportDone(TRUE) =>
           /\ result = "True"
           /\ Sections(out.doc) = <<"cover", "toc", "company", "table_espirometria",
                                    "stats_espirometria", "proto_espirometria">>
           /\ QuartersStated(out.doc)

C22_Witness ==
    /\ SpirometryReportDone(FALSE)
    /\ MergedOutput
    /\ SectionPages(out.doc, "team") = 1
    /\ SectionPages(out.doc, "table_espirometria") = 1
    /\ SectionPages(out.doc, "proto_espirometria") = 3

(***************************************************************************)
(* C23: the trailing protocol is selected by report type: once generate    *)
(* has rendered the protocol documents, the audiometry protocol is among   *)
(* them exactly when the type names audiometry and the spirometry protocol *)
(* exactly when the type names spirometry, audiometry first; and every     *)
(* generated report carries a trailing protocol section: at least one      *)
(* protocol document is rendered, and the merged document ends with its    *)
(* pages.                                                                  *)
(***************************************************************************)
NamesAudiometry(report_type) == report_type \in {Type.audiometria, Type.combinado}
NamesSpirometry(report_type) == report_type \in {Type.espirometria, Type.combinado}

ProtocolsRendered == pc \in {"assemble", "finally", "done"}

C23_ProtocolSelectedByType ==
    /\ ProtocolsRendered =>
           /\ InSeq("audiometria", protocol_pdf) <=> NamesAudiometry(report_data.type)
           /\ InSeq("espirometria", protocol_pdf) <=> NamesSpirometry(report_data.type)
           /\ Len(protocol_pdf) = 2 => protocol_pdf = <<"audiometria", "espirometria">>
           /\ Len(protocol_pdf) >= 1
    /\ pc = "done" =>
           /\ out.state = "merged"
           /\ IsProtocolPage(out.doc[Len(out.doc)])

(***************************************************************************)
(* C24                                                                     *)
(***************************************************************************)
\* the lines of a text that hold more than whitespace
NonBlankLines(text) ==
    SelectSeq(SplitLines(text), LAMBDA line : \E k \in 1..Len(line) : ~IsSpace(line[k]))

\* a line without its leading bullet symbols and surrounding whitespace
Cleaned(line) ==
    LET kept == {k \in 1..Len(line) : ~IsSpace(line[k]) /\ ~IsSymbol(line[k])}
    IN IF kept = {}
       THEN <<>>
       ELSE RStrip(SubSeq(line, CHOOSE k \in kept : \A j \in kept : k <= j, Len(line)))

\* the bullets and entries drawn on the pages, in drawing order
BulletsAndItems(pages) ==
    LET RECURSIVE From(_)
        From(n) == IF n > Len(pages) THEN <<>>
                   ELSE SelectSeq(pages[n].ops, LAMBDA op : op \in {"bullet", "item"})
                        \o From(n + 1)
    IN From(1)

EveryItemBulleted(pages, items) ==
    BulletsAndItems(pages)
        = [k \in 1..(2 * Len(items)) |-> IF k % 2 = 1 THEN "bullet" ELSE "item"]

\* C24 as stated: for every non-blank line of the recommendations text
\* _split_into_bullet_items yields exactly one item, in line order, equal to
\* the line with its leading bullet symbols and surrounding whitespace
\* removed, so that no item begins with a bullet symbol of the text; the
\* renderer draws one and the same bullet before every item.
C24_ItemsAreCleanedLines ==
    HelperReturned("recommendations") =>
        LET lines == NonBlankLines(report_data.text)
        IN /\ Len(result.items) = Len(lines)
           /\ \A k \in 1..Len(lines) :
                  /\ result.items[k] = Cleaned(lines[k])
                  /\ ~IsSymbol(result.items[k][1])
           /\ EveryItemBulleted(result.pages, result.items)

\* C24 (amended): one item for every non-blank line, in line order: the line
\* with its leading bullet symbols and surrounding whitespace removed when
\* something is left of it, and the line itself without its surrounding
\* whitespace when it holds nothing but bullet symbols; so no item is empty,
\* and an item begins with a bullet symbol only when its line holds nothing
\* else.  The renderer draws one and the same bullet before every item.
C24_ItemsAreCleanedOrKeptLines ==
    HelperReturned("recommendations") =>
        LET lines == NonBlankLines(report_data.text)
        IN /\ Len(result.items) = Len(lines)
           /\ \A k \in 1..Len(lines) :
                  /\ result.items[k] # <<>>
                  /\ result.items[k] = IF Cleaned(lines[k]) # <<>>
                                        THEN Cleaned(lines[k])
                                        ELSE StrStrip(lines[k])
                  /\ IsSymbol(result.items[k][1]) <=> Cleaned(lines[k]) = <<>>
           /\ EveryItemBulleted(result.pages, result.items)

C24_Witness ==
    /\ HelperReturned("recommendations")
    /\ Len(result.items) = 2
    /\ result.items[1] = <<Word("a", 3000)>>
    /\ result.items[2] = <<Word("-", 366)>>
    /\ report_data.text[1] = Word("U+2022", 385)
    /\ Len(BulletsAndItems(result.pages)) = 4

(***************************************************************************)
(* C25                                                                     *)
(***************************************************************************)
\* no block of the pages reaches down to the bottom margin
BlocksAbove(doc) == \A n \in 1..Len(doc) : doc[n].low > bottom_margin

\* C25: the block renderers (rows of the results tables, paragraphs and
\* bullet items, team members, calibration rows, protocol steps) draw a
\* block of height h at y only when y - h > bottom_margin and break the
\* page first otherwise, so that every block drawn, in the base stream and
\* in the protocol documents, lies entirely above the bottom margin.
C25_BlocksAboveBottomMargin ==
    /\ BlocksAbove(BasePages)
    /\ BlocksAbove(base_doc)
    /\ \A k \in 1..Len(proto_docs) : BlocksAbove(proto_docs[k])
    /\ BlocksAbove(out.doc)

(***************************************************************************)
(* C26                                                                     *)
(***************************************************************************)
\* the rows the results tables of a document hold for the entry of a name
RowsOf(doc, name) ==
    { <<n, k>> \in (1..Len(doc)) \X (1..ManyRows + 1) :
        /\ doc[n].sec \in {"table_audiometria", "table_espirometria"}
        /\ k <= Len(doc[n].listed)
        /\ doc[n].listed[k] = name }

\* the total the statistics page of a dataset states (0: no such page)
TotalStated(doc, dataset_key) ==
    IF StatisticsOf(doc, dataset_key) = <<>>
    THEN 0
    ELSE StatisticsOf(doc, dataset_key)[1].listed[1].total

GenerateSucceeded == pc = "done" /\ result = "True"

\* C26: grouping loses no evaluated entry: whatever the report type and the
\* test_type tags of the entries, every entry is a row of exactly one
\* results table, no dataset has more than one statistics page, and the
\* totals the statistics pages state add up to the number of entries.
C26_NoEntryLost ==
    GenerateSucceeded =>
        /\ \A k \in 1..Len(report_data.evaluated) :
               Cardinality(RowsOf(out.doc, report_data.evaluated[k].name)) = 1
        /\ \A d \in {"audiometria", "espirometria"} : Len(StatisticsOf(out.doc, d)) <= 1
        /\ TotalStated(out.doc, "audiometria") + TotalStated(out.doc, "espirometria")
               = Len(report_data.evaluated)

(***************************************************************************)
(* C27                                                                     *)
(***************************************************************************)
\* the pages of file p the output holds in section j
CopiedOf(j, p) ==
    { out.doc[n].idx : n \in {n \in 1..Len(out.doc) :
                                 out.doc[n].path = p /\ out.doc[n].sect = j} }

NonBlankOf(p) ==
    {i \in 1..Len(FileDoc(p).pages) : ~IsBlankPdfPage(FileDoc(p).pages[i])}

\* C27: in the merged document every attachment file has contributed either
\* all of its non-blank pages or none of them: a file whose reading fails
\* part-way has no page in the output, and every file that is on disk and
\* readable is spliced in full, whatever files precede it.
C27_AllPagesOrNone ==
    MergedOutput =>
        \A j \in 1..Len(attachment_sections) :
            \A k \in 1..Len(attachment_sections[j].files) :
                LET p == attachment_sections[j].files[k]
                IN /\ CopiedOf(j, p) \in {{}, NonBlankOf(p)}
                   /\ FileDoc(p).failAt # 0 => CopiedOf(j, p) = {}
                   /\ (p \in fs /\ FileDoc(p).failAt = 0)
                          => CopiedOf(j, p) = NonBlankOf(p)

(***************************************************************************)
(* C28                                                                     *)
(***************************************************************************)
\* the label that denotes a set of test types (no label denotes no test)
LabelDenoting(tests) ==
    CASE tests = {"audiometria"} -> "AUDIOMETRI'AS"
      [] tests = {"espirometria"} -> "ESPIROMETRI'AS"
      [] tests = {"audiometria", "espirometria"} -> "AUDIOMETRI'AS Y ESPIROMETRI'AS"
      [] OTHER -> ""

Elements(q) == {q[k] : k \in 1..Len(q)}

\* C28: for every report type, the empty and the unrecognised ones included,
\* the parts of one document that depend on the type agree: the test label
\* of the table of contents, the dataset keys whose results and statistics
\* are rendered and the protocol documents appended denote the same set of
\* test types.
C28_TypeDependentPartsAgree ==
    ProtocolsRendered =>
        /\ Elements(protocol_pdf) = Elements(DatasetKeys)
        /\ ListedOn("toc", 1)[8] = LabelDenoting(Elements(DatasetKeys)) \o "."
        /\ \A d \in {"audiometria", "espirometria"} :
               SectionPages(BasePages, "table_" \o d) > 0 => d \in Elements(DatasetKeys)

(***************************************************************************)
(* C29                                                                     *)
(***************************************************************************)
\* the labels that name the options of the espirometria scheme, and the
\* code of the option each of them names
OptionNamedBy ==
    [normal |-> "espiro_normal",
     restriccionLeve |-> "restriccion_leve",
     obstruccionLeve |-> "obstruccion_leve",
     obstruccionARestriccionLeve |-> "obstruccion_restriccion_leve",
     restriccionModerada |-> "restriccion_moderada",
     obstruccionModerada |-> "obstruccion_moderada",
     restriccionGrave |-> "restriccion_grave"]

\* C29: in the espirometria scheme every option is reached through the
\* label: an entry without a valid result_code whose label names an option
\* (normal, restriccion leve, obstruccion leve, obstruccion a restriccion
\* leve, restriccion moderada, obstruccion moderada, restriccion grave)
\* resolves to the code of that option, not to the code of an earlier rule.
C29_EveryOptionReachedByItsLabel ==
    (/\ HelperReturned("_resolve_result_code")
     /\ report_data.dataset_key = "espirometria"
     /\ report_data.entry.result_code \notin SchemeKeys("espirometria"))
        => \A name \in DOMAIN OptionNamedBy :
               report_data.entry.result_label = Label[name]
                   => result = OptionNamedBy[name]

(***************************************************************************)
(* C30                                                                     *)
(***************************************************************************)
\* page n of the document was started by a page break inside a section
StartedByBreak(doc, n) == n > 1 /\ doc[n].sec = doc[n - 1].sec

\* the page holds no row, line, image, link or note of its section
ContentFree(page) ==
    \A k \in 1..Len(page.ops) : page.ops[k] \notin {"item", "image", "links", "note"}

NoContentFreePage(doc) ==
    \A n \in 1..Len(doc) :
        (StartedByBreak(doc, n) \/ doc[n].sec \in {"conclusion", "recommendations"})
            => ~ContentFree(doc[n])

\* C30: no renderer emits a page without content: every page started by a
\* page break inside a section, in the base stream and in the protocol
\* documents, holds at least one row or line of the section besides header,
\* title and footer, and so does the first page of a free-text section; the
\* company profile never ends with an empty continuation page.
C30_NoContentFreePage ==
    /\ NoContentFreePage(BasePages)
    /\ NoContentFreePage(base_doc)
    /\ \A k \in 1..Len(proto_docs) : NoContentFreePage(proto_docs[k])

====
